---- MODULE Spec2Model ----
(***************************************************************************)
(* The schema validation compiler of @suckless/schema: descriptors, the    *)
(* code emitter, build/compile with the identity cache and the             *)
(* recursion-breaking trampoline, and the execution of the generated       *)
(* validators; and the utility packages @suckless/queue, cache, retry and  *)
(* emitter, each a state machine of its own over its own variable.         *)
(*                                                                         *)
(* Text (generated source, keys, messages) is a sequence of tokens; the    *)
(* characters esc() rewrites (backslash, quote, newline) are tokens of     *)
(* their own.  JavaScript values are tagged tuples: <<"undef">>,           *)
(* <<"null">>, <<"bool", b>>, <<"num", n>> (n in tenths, so 15 is 1.5),    *)
(* <<"nan">>, <<"inf">>, <<"str", s>>, <<"big", n>>, <<"arr", items>>,     *)
(* <<"obj", keys, vals>> (own enumerable keys in enumeration order).       *)
(***************************************************************************)
EXTENDS Integers, Sequences, FiniteSets, TLC

VARIABLES
    cache,      \* _cache: descriptor -> function object (NoFn: no entry)
    building,   \* _building: the descriptors marked as being compiled
    fns,        \* the function objects created so far (validators, trampolines)
    stack,      \* the build() activations of the running compile call
    returns,    \* per descriptor, the functions compile() has returned for it, in order
    builds,     \* per descriptor, the number of build() calls that produced a validator
    thrown,     \* the error of the last compile call that threw ("" if none)
    thunks,     \* the lazy occurrences whose thunk the last compile call invoked
    calls,      \* the number of compile calls made
    last,       \* the last validator call: descriptor, input and outcome
    queue,      \* the queue of @suckless/queue: createQueue's locals and its adapter
    kvcache,    \* the cache of @suckless/cache: adapter store, inFlight map, fetch calls
    retrying,   \* a call of retry() of @suckless/retry
    emitter,    \* the emitter of @suckless/emitter: listeners and emit activations
    memoized,   \* a function returned by memo() of @suckless/memo
    limiter,    \* a limiter of @suckless/limiter over its memoryAdapter
    adapter     \* a memoryAdapter of @suckless/queue used on its own

\* The variables of the schema compiler.
svars == <<cache, building, fns, stack, returns, builds, thrown, thunks, calls, last>>

\* The variables of the utility packages other than the queue.
utils == <<kvcache, retrying, emitter, memoized, limiter, adapter>>

\* The variables of the schema compiler and of the packages modelled first.
packages == <<cache, building, fns, stack, returns, builds, thrown, thunks, calls, last,
              queue, kvcache, retrying, emitter>>

vars == <<cache, building, fns, stack, returns, builds, thrown, thunks, calls, last,
          queue, kvcache, retrying, emitter, memoized, limiter, adapter>>

NoFn == 0

(***************************************************************************)
(* Bounds of the model.                                                    *)
(***************************************************************************)
MaxCompiles == 3
MaxRunCompiles == 1
MaxConcurrency == 2
MaxPushes == 3
MaxDrains == 2
MaxDisposes == 2
MaxFetches == 3
MaxAttempts == 3
MaxEmits == 2
MaxSubs == 3
MaxCapacity == 2
MaxCalls == 4
MaxPulls == 4
MaxTokens == 2
MaxChecks == 3
MaxNow == 4
MaxDepth == 6

(***************************************************************************)
(* Text.                                                                   *)
(***************************************************************************)
BS == "\\"
QT == "'"
NL == "\n"

RECURSIVE esc(_)
esc(s) ==
    IF s = <<>> THEN <<>>
    ELSE LET c == Head(s)
             r == IF c = BS THEN <<BS, BS>>
                  ELSE IF c = QT THEN <<BS, QT>>
                  ELSE IF c = NL THEN <<BS, "n">>
                  ELSE <<c>>
         IN r \o esc(Tail(s))

\* The string a single-quoted literal with source text s denotes.
RECURSIVE JsLit(_)
JsLit(s) ==
    IF s = <<>> THEN <<>>
    ELSE IF Head(s) = BS /\ Len(s) >= 2
         THEN LET c == s[2]
              IN <<IF c = "n" THEN NL ELSE c>> \o JsLit(Tail(Tail(s)))
         ELSE <<Head(s)>> \o JsLit(Tail(s))

(***************************************************************************)
(* Descriptors.  A descriptor object is its index in Schemas; children and *)
(* thunk results are indices, so identity and structure are distinct.      *)
(* A shape lists its fields in the order the object literal declares them. *)
(***************************************************************************)
descriptor(tag) == [tag |-> tag]
literal(value) == [tag |-> "literal", value |-> value]
oneOf(values) == [tag |-> "oneOf", values |-> values]
maybe(inner) == [tag |-> "maybe", inner |-> inner]
array(item) == [tag |-> "array", item |-> item]
object(shape) == [tag |-> "object", shape |-> shape]
tuple(items) == [tag |-> "tuple", items |-> items]
record(value) == [tag |-> "record", value |-> value]
union(variants) == [tag |-> "union", variants |-> variants]
lazy(thunk) == [tag |-> "lazy", thunk |-> thunk]
refine(inner, fn, message) ==
    [tag |-> "refine", inner |-> inner, fn |-> fn, message |-> message]
preprocess(inner, fn) == [tag |-> "preprocess", inner |-> inner, fn |-> fn]
transform(inner, fn) == [tag |-> "transform", inner |-> inner, fn |-> fn]

\* A thunk that throws instead of returning a descriptor.
Throws == 0
\* refine() called without a message.
NoMessage == <<>>

string == 1
number == 2
integer == 3
boolean == 4
bigint == 5

Schemas == <<
    (*  1 *) descriptor("string"),
    (*  2 *) descriptor("number"),
    (*  3 *) descriptor("integer"),
    (*  4 *) descriptor("boolean"),
    (*  5 *) descriptor("bigint"),
    (*  6 *) object(<< <<<<"x">>, string>> >>),
    (*  7 *) object(<< <<<<"x">>, string>> >>),
    (*  8 *) lazy(10),
    (*  9 *) array(8),
    (* 10 *) object(<< <<<<"value">>, number>>, <<<<"children">>, 9>> >>),
    (* 11 *) lazy(11),
    (* 12 *) lazy(13),
    (* 13 *) maybe(12),
    (* 14 *) lazy(integer),
    (* 15 *) tuple(<<14, 14>>),
    (* 16 *) descriptor("bogus"),
    (* 17 *) object(<< <<<<"a">>, 14>>, <<<<"b">>, 16>> >>),
    (* 18 *) lazy(Throws),
    (* 19 *) union(<<>>),
    (* 20 *) lazy(22),
    (* 21 *) array(20),
    (* 22 *) union(<<string, number, 21>>),
    (* 23 *) object(<< <<<<"id">>, integer>> >>),
    (* 24 *) array(23),
    (* 25 *) object(<< <<<<"items">>, 24>> >>),
    (* 26 *) record(number),
    (* 27 *) array(26),
    (* 28 *) tuple(<<string, integer>>),
    (* 29 *) object(<< <<<<"pair">>, 28>> >>),
    (* 30 *) array(29),
    (* 31 *) object(<< <<<<"data">>, 30>> >>),
    (* 32 *) array(string),
    (* 33 *) object(<< <<<<"it", QT, "s">>, 32>> >>),
    (* 34 *) refine(string, "nonEmpty", NoMessage),
    (* 35 *) transform(integer, "double"),
    (* 36 *) object(<< <<<<"a">>, 34>>, <<<<"b">>, 35>> >>),
    (* 37 *) object(<< <<<<"b">>, string>>, <<<<"0">>, string>> >>),
    (* 38 *) transform(string, "length"),
    (* 39 *) maybe(number),
    (* 40 *) object(<< <<<<"x">>, string>>, <<<<"opt">>, 39>> >>),
    (* 41 *) preprocess(integer, "Number"),
    (* 42 *) union(<<integer, string>>),
    (* 43 *) literal(<<"str", "a">>),
    (* 44 *) literal(<<"str", "b">>),
    (* 45 *) object(<< <<<<"type">>, 43>>, <<<<"val">>, string>> >>),
    (* 46 *) object(<< <<<<"type">>, 44>>, <<<<"val">>, number>> >>),
    (* 47 *) union(<<45, 46>>),
    (* 48 *) union(<<40, 32>>),
    (* 49 *) object(<< <<<<"y">>, 39>>, <<<<"x">>, string>> >>),
    (* 50 *) object(<< <<<<"x">>, number>>, <<<<"z">>, string>> >>),
    (* 51 *) union(<<49, 50>>),
    (* 52 *) union(<<38, 35>>),
    (* 53 *) tuple(<<52, 52>>),
    (* 54 *) union(<<number, string>>),
    (* 55 *) union(<<boolean, bigint, integer>>),
    (* 56 *) object(<< <<<<"v">>, 42>> >>),
    (* 57 *) literal(<<"str", "c">>),
    (* 58 *) object(<< <<<<"type">>, 57>>, <<<<"opt">>, 39>> >>),
    (* 59 *) union(<<45, 46, 58>>),
    (* 60 *) object(<< <<<<"type">>, 43>>, <<<<"val">>, number>> >>),
    (* 61 *) union(<<45, 60>>),
    (* 62 *) object(<< <<<<"u">>, 59>> >>),
    (* 63 *) descriptor("constructor"),
    (* 64 *) union(<<63, string>>),
    (* 65 *) union(<<16, string>>),
    (* 66 *) lazy(16),
    (* 67 *) array(66),
    (* 68 *) tuple(<<39, string>>),
    (* 69 *) array(39),
    (* 70 *) object(<< <<<<"constructor">>, 39>>, <<<<"x">>, string>> >>),
    (* 71 *) refine(string, "nonEmpty", <<"must not be empty">>),
    (* 72 *) object(<< <<<<"n">>, 41>>, <<<<"s">>, 71>> >>),
    (* 73 *) lazy(45),
    (* 74 *) lazy(46),
    (* 75 *) union(<<73, 74>>),
    (* 76 *) tuple(<<47, 75>>),
    (* 77 *) tuple(<<75, 47>>),
    (* 78 *) lazy(string),
    (* 79 *) union(<<14, 78>>),
    (* 80 *) tuple(<<42, 79>>),
    (* 81 *) tuple(<<79, 42>>)
>>

Descs == 1..Len(Schemas)

s1 == 6
s2 == 7
treeItems == 9
tree == 10
selfLazy == 11
maybeSelf == 13
lazyInt == 14
pairOfLazy == 15
bogus == 16
partlyBogus == 17
throwingLazy == 18
emptyUnion == 19
jsonSchema == 22
fallbackUnion == 51

(***************************************************************************)
(* Object.keys(shape): integer-like keys first, in ascending numeric       *)
(* order, then the other keys in the order they were created.              *)
(***************************************************************************)
Digits == <<"0", "1", "2", "3", "4", "5", "6", "7", "8", "9">>

IsIndexKey(key) == Len(key) = 1 /\ \E i \in 1..Len(Digits) : Digits[i] = key[1]

IndexOfKey(key) == CHOOSE i \in 1..Len(Digits) : Digits[i] = key[1]

RECURSIVE SelectFields(_, _)
SelectFields(shape, wantIndex) ==
    IF shape = <<>> THEN <<>>
    ELSE LET rest == SelectFields(Tail(shape), wantIndex)
         IN IF IsIndexKey(Head(shape)[1]) = wantIndex
            THEN <<Head(shape)>> \o rest ELSE rest

RECURSIVE SortIndexFields(_)
SortIndexFields(fs) ==
    IF fs = <<>> THEN <<>>
    ELSE LET m == CHOOSE i \in 1..Len(fs) :
                      \A j \in 1..Len(fs) :
                          IndexOfKey(fs[i][1]) <= IndexOfKey(fs[j][1])
         IN <<fs[m]>> \o SortIndexFields(
                SubSeq(fs, 1, m - 1) \o SubSeq(fs, m + 1, Len(fs)))

\* The fields of a shape in Object.keys order.
ObjectKeys(shape) ==
    SortIndexFields(SelectFields(shape, TRUE)) \o SelectFields(shape, FALSE)

HasField(shape, key) == \E i \in 1..Len(shape) : shape[i][1] = key

FieldOf(shape, key) ==
    shape[CHOOSE i \in 1..Len(shape) : shape[i][1] = key][2]

(***************************************************************************)
(* Error paths: PathVal is a static string {s} or a run-time expression    *)
(* {d}, a sum of string literals (<<"lit", source text>>) and loop         *)
(* variables (<<"var", name>>).                                            *)
(***************************************************************************)
StaticPath(s) == [k |-> "s", s |-> s]
DynamicPath(d) == [k |-> "d", d |-> d]
RootPath == StaticPath(<<>>)

throwCode(p, msg) ==
    LET m == esc(msg)
    IN IF p.k = "s"
       THEN [k |-> "s",
             lit |-> (IF p.s # <<>> THEN p.s \o <<": ">> ELSE <<>>) \o m]
       ELSE [k |-> "d", d |-> p.d, lit |-> <<": ">> \o m]

appendKey(p, key) ==
    LET k == esc(key)
    IN IF p.k = "s"
       THEN StaticPath(IF p.s # <<>> THEN p.s \o <<".">> \o k ELSE k)
       ELSE DynamicPath(p.d \o << <<"lit", <<".">> \o k>> >>)

appendIndex(p, indexVar) ==
    IF p.k = "s"
    THEN DynamicPath(
             << <<"lit", (IF p.s # <<>> THEN esc(p.s) ELSE <<>>) \o <<"[">> >>,
                <<"var", indexVar>>,
                <<"lit", <<"]">> >> >>)
    ELSE DynamicPath(p.d \o << <<"lit", <<"[">> >>,
                               <<"var", indexVar>>,
                               <<"lit", <<"]">> >> >>)

appendTupleIndex(p, idx) ==
    IF p.k = "s"
    THEN StaticPath(p.s \o <<"[", ToString(idx), "]">>)
    ELSE DynamicPath(p.d \o << <<"lit", <<"[", ToString(idx), "]">> >> >>)

(***************************************************************************)
(* The code emitter.  A code fragment is a sequence of statements; each    *)
(* statement records the slot expression e it reads or assigns (a sequence *)
(* of accessors from `input`: <<"key", k>>, <<"idx", i>>, <<"var", v>>;    *)
(* at run time a loop variable is an index or a record key <<"rkey", k>>)  *)
(* and the throw statement it raises.  ctx is the context list: user       *)
(* functions <<"user", fn>>, structuredClone <<"clone">>, and the          *)
(* sub-validators build() is called for, <<"build", descriptor>>.  c.n is  *)
(* the counter of generated names.  err is the exception emit() throws.    *)
(***************************************************************************)
TYPEOF_TAGS ==
    [t \in {"string", "boolean", "number", "integer", "bigint"} |->
        IF t = "integer" THEN "number" ELSE t]

\* Names every object literal inherits from Object.prototype.
ObjectPrototype == {"constructor", "toString"}

\* TYPEOF_TAGS[tag]: an own entry, an inherited member (as `${tag}` prints
\* it), or undefined.
TypeofTag(t) ==
    IF t \in DOMAIN TYPEOF_TAGS THEN TYPEOF_TAGS[t]
    ELSE IF t \in ObjectPrototype THEN "function " \o t
    ELSE "undefined"

NoError == ""

EmitState == [ctx |-> <<>>, n |-> 0, err |-> NoError]

Emitted(code, st) == [code |-> code, ctx |-> st.ctx, n |-> st.n, err |-> st.err]

EmitThrows(st, msg) == [code |-> <<>>, ctx |-> st.ctx, n |-> st.n, err |-> msg]

Push(st, x) == [st EXCEPT !.ctx = Append(@, x)]

Fresh(st, k) == [st EXCEPT !.n = @ + k]

StateOf(r) == [ctx |-> r.ctx, n |-> r.n, err |-> r.err]

\* JSON.stringify(value), read back as the expression it denotes.
JSONValue(v) == IF v[1] \in {"nan", "inf"} THEN <<"null">> ELSE v

\* `${value}` of a literal or oneOf value.
ValueText(v) ==
    CASE v[1] = "null" -> <<"null">>
      [] v[1] = "str" -> <<v[2]>>
      [] v[1] = "bool" -> <<IF v[2] THEN "true" ELSE "false">>
      [] v[1] = "num" ->
            IF v[2] % 10 = 0 THEN <<ToString(v[2] \div 10)>>
            ELSE <<ToString(v[2] \div 10), ".", ToString(v[2] % 10)>>
      [] v[1] = "nan" -> <<"NaN">>
      [] v[1] = "inf" -> <<"Infinity">>
      [] OTHER -> <<"undefined">>

RECURSIVE JoinValues(_)
JoinValues(vs) ==
    IF vs = <<>> THEN <<>>
    ELSE IF Len(vs) = 1 THEN ValueText(vs[1])
    ELSE ValueText(vs[1]) \o <<", ">> \o JoinValues(Tail(vs))

WholeSlot(e, v) == e

\* `${e}[${v}]`: the element the loop variable v selects.
ItemSlot(e, v) == Append(e, <<"var", v>>)

Check(test, e, p, msg) ==
    [op |-> "check", test |-> test, e |-> e, throw |-> throwCode(p, msg)]

\* for (const variant of variants) { ... typeofMap ... }
canDiscriminate(variants) ==
    \A i \in 1..Len(variants) :
        /\ TypeofTag(Schemas[variants[i]].tag) # "undefined"
        /\ \A j \in 1..(i - 1) :
               TypeofTag(Schemas[variants[j]].tag)
                   # TypeofTag(Schemas[variants[i]].tag)

AnyLiteral(variants, key) ==
    \A i \in 1..Len(variants) :
        /\ HasField(Schemas[variants[i]].shape, key)
        /\ Schemas[FieldOf(Schemas[variants[i]].shape, key)].tag = "literal"

\* A key every variant pins to a literal, the literals pairwise distinct.
ValidDiscriminant(variants, key) ==
    /\ \A i \in 1..Len(variants) :
           /\ HasField(Schemas[variants[i]].shape, key)
           /\ Schemas[FieldOf(Schemas[variants[i]].shape, key)].tag = "literal"
    /\ \A i, j \in 1..Len(variants) :
           i # j =>
               Schemas[FieldOf(Schemas[variants[i]].shape, key)].value
                   # Schemas[FieldOf(Schemas[variants[j]].shape, key)].value

AllObjects(variants) ==
    \A i \in 1..Len(variants) : Schemas[variants[i]].tag = "object"

\* The keys of the first variant that discriminate, in Object.keys order.
Discriminants(variants) ==
    IF variants # <<>> /\ AllObjects(variants)
    THEN LET ks == ObjectKeys(Schemas[variants[1]].shape)
         IN SelectSeq(ks, LAMBDA f : ValidDiscriminant(variants, f[1]))
    ELSE <<>>

UnionStrategy(variants) ==
    IF canDiscriminate(variants) THEN "typeof"
    ELSE IF Discriminants(variants) # <<>> THEN "discriminated"
    ELSE "fallback"

PreprocessedLate(call, inner) == inner \o call

\* `${e}=v[${idx}](${e});${inner}`
Preprocessed(call, inner) == call \o inner

RECURSIVE emit(_, _, _, _)
RECURSIVE emitFields(_, _, _, _, _, _)
RECURSIVE emitItems(_, _, _, _, _)
RECURSIVE emitCases(_, _, _, _, _, _)
RECURSIVE pushVariants(_, _, _)

\* The fields of an object shape, from the i-th on; skip is the set of keys
\* left out (the discriminant of a discriminated union).
emitFields(fields, i, skip, e, p, st) ==
    IF st.err # NoError \/ i > Len(fields) THEN Emitted(<<>>, st)
    ELSE IF fields[i][1] \in skip THEN emitFields(fields, i + 1, skip, e, p, st)
    ELSE LET key == fields[i][1]
             fd == fields[i][2]
             acc == Append(e, <<"key", key>>)
             kp == appendKey(p, key)
             r == emit(fd, acc, kp, st)
             part == IF Schemas[fd].tag = "maybe"
                     THEN <<[op |-> "ifIn", key |-> key, e |-> e, inner |-> r.code]>>
                     ELSE r.code
             rest == emitFields(fields, i + 1, skip, e, p, StateOf(r))
         IN Emitted(part \o rest.code, StateOf(rest))

emitItems(items, i, e, p, st) ==
    IF st.err # NoError \/ i > Len(items) THEN Emitted(<<>>, st)
    ELSE LET r == emit(items[i], Append(e, <<"idx", i - 1>>),
                       appendTupleIndex(p, i - 1), st)
             rest == emitItems(items, i + 1, e, p, StateOf(r))
         IN Emitted(r.code \o rest.code, StateOf(rest))

\* The case clauses of a discriminated-object union.
emitCases(variants, i, key, e, p, st) ==
    IF st.err # NoError \/ i > Len(variants) THEN Emitted(<<>>, st)
    ELSE LET shape == Schemas[variants[i]].shape
             val == Schemas[FieldOf(shape, key)].value
             r == emitFields(ObjectKeys(shape), 1, {key}, e, p, st)
             rest == emitCases(variants, i + 1, key, e, p, StateOf(r))
         IN Emitted(<< <<JSONValue(val), r.code>> >> \o rest.code, StateOf(rest))

pushVariants(variants, i, st) ==
    IF i > Len(variants) THEN st
    ELSE pushVariants(variants, i + 1, Push(st, <<"build", variants[i], "variant">>))

TypeofCaseBare(variant, e, p) == <<TypeofTag(Schemas[variant].tag), <<>> >>

TypeofCase(variant, e, p) ==
    LET t == Schemas[variant].tag
    IN <<TypeofTag(t),
         IF t = "number"
         THEN <<Check("isFinite", e, p, <<"expected finite number">>)>>
         ELSE IF t = "integer"
         THEN <<Check("isInteger", e, p, <<"expected integer">>)>>
         ELSE <<>> >>

emitUnion(variants, e, p, st) ==
    LET strategy == UnionStrategy(variants)
    IN IF strategy = "typeof"
       THEN Emitted(
                <<[op |-> "switchTypeof", e |-> e,
                   cases |-> [i \in 1..Len(variants) |-> TypeofCase(variants[i], e, p)],
                   throw |-> throwCode(p, <<"union failed">>)]>>, st)
       ELSE IF strategy = "discriminated"
       THEN LET key == Discriminants(variants)[1][1]
                r == emitCases(variants, 1, key, e, p, st)
            IN Emitted(
                   <<Check("object", e, p, <<"expected object">>),
                     [op |-> "switch", e |-> Append(e, <<"key", key>>),
                      cases |-> r.code,
                      throw |-> throwCode(p, <<"union failed">>)]>>, StateOf(r))
       ELSE LET first == Len(st.ctx) + 1
                pushed == Fresh(pushVariants(variants, 1, st), 2)
                cloneIdx == Len(pushed.ctx) + 1
            IN Emitted(
                   <<[op |-> "try", e |-> e,
                      fns |-> [i \in 1..Len(variants) |-> first + i - 1],
                      clone |-> cloneIdx]>>,
                   Push(pushed, <<"clone">>))

emit(d, e, p, st) ==
    LET D == Schemas[d]
        t == D.tag
    IN IF st.err # NoError THEN Emitted(<<>>, st)
       ELSE CASE t = "string" ->
                Emitted(<<Check("string", e, p, <<"expected string">>)>>, st)
         [] t = "boolean" ->
                Emitted(<<Check("boolean", e, p, <<"expected boolean">>)>>, st)
         [] t = "number" ->
                Emitted(<<Check("number", e, p, <<"expected finite number">>)>>, st)
         [] t = "integer" ->
                Emitted(<<Check("integer", e, p, <<"expected integer">>)>>, st)
         [] t = "bigint" ->
                Emitted(<<Check("bigint", e, p, <<"expected bigint">>)>>, st)
         [] t = "literal" ->
                Emitted(<<[op |-> "literal", e |-> e, value |-> JSONValue(D.value),
                           throw |-> throwCode(p, <<"expected ">> \o ValueText(D.value))]>>,
                        st)
         [] t = "oneOf" ->
                Emitted(<<[op |-> "oneOf", e |-> e,
                           values |-> [i \in 1..Len(D.values) |-> JSONValue(D.values[i])],
                           throw |-> throwCode(p, <<"expected one of: ">>
                                                      \o JoinValues(D.values))]>>,
                        st)
         [] t = "maybe" ->
                LET r == emit(D.inner, e, p, st)
                IN Emitted(<<[op |-> "maybe", e |-> e, inner |-> r.code]>>, StateOf(r))
         [] t = "array" ->
                LET v == <<"i", st.n>>
                    r == emit(D.item, ItemSlot(e, v), appendIndex(p, v), Fresh(st, 1))
                IN Emitted(<<Check("array", e, p, <<"expected array">>),
                             [op |-> "for", e |-> e, v |-> v, inner |-> r.code]>>,
                           StateOf(r))
         [] t = "object" ->
                LET r == emitFields(ObjectKeys(D.shape), 1, {}, e, p, st)
                IN Emitted(<<Check("object", e, p, <<"expected object">>)>> \o r.code,
                           StateOf(r))
         [] t = "tuple" ->
                LET len == Len(D.items)
                    r == emitItems(D.items, 1, e, p, st)
                IN Emitted(<<[op |-> "checkTuple", e |-> e, len |-> len,
                              throw |-> throwCode(p, <<"expected tuple of length ",
                                                       ToString(len)>>)]>>
                               \o r.code,
                           StateOf(r))
         [] t = "record" ->
                LET v == <<"k", st.n>>
                    r == emit(D.value, ItemSlot(e, v), appendIndex(p, v), Fresh(st, 1))
                IN Emitted(<<Check("object", e, p, <<"expected object">>),
                             [op |-> "forIn", e |-> e, v |-> v, inner |-> r.code]>>,
                           StateOf(r))
         [] t = "union" -> emitUnion(D.variants, e, p, st)
         [] t = "transform" ->
                LET r == emit(D.inner, e, p, st)
                IN IF r.err # NoError THEN r
                   ELSE Emitted(r.code \o <<[op |-> "assign", e |-> e,
                                             idx |-> Len(r.ctx) + 1]>>,
                                Push(StateOf(r), <<"user", D.fn>>))
         [] t = "lazy" ->
                IF D.thunk = Throws THEN EmitThrows(st, "thunk threw")
                ELSE Emitted(<<[op |-> "assign", e |-> e, idx |-> Len(st.ctx) + 1]>>,
                             Push(st, <<"build", D.thunk, "thunk">>))
         [] t = "refine" ->
                LET r == emit(D.inner, e, p, st)
                    msg == IF D.message = NoMessage THEN <<"refinement failed">>
                           ELSE D.message
                IN IF r.err # NoError THEN r
                   ELSE Emitted(r.code \o <<[op |-> "refine", e |-> e,
                                             idx |-> Len(r.ctx) + 1,
                                             throw |-> throwCode(p, msg)]>>,
                                Push(StateOf(r), <<"user", D.fn>>))
         [] t = "preprocess" ->
                LET idx == Len(st.ctx) + 1
                    r == emit(D.inner, e, p, Push(st, <<"user", D.fn>>))
                IN Emitted(Preprocessed(<<[op |-> "assign", e |-> e, idx |-> idx]>>,
                                        r.code),
                           StateOf(r))
         [] OTHER -> EmitThrows(st, "Unknown schema tag: \"" \o t \o "\"")

\* emit(d, "input", ctx, { n: 0 }, { s: "" }), as build() calls it.
Bodies == [d \in Descs |-> emit(d, <<>>, RootPath, EmitState)]

Body(d) == Bodies[d]

\* `new Function(...)` rejects a switch block that starts with ";", which is
\* what an empty list of case clauses joins to.
RECURSIVE ValidSource(_)
ValidSource(code) ==
    \A i \in 1..Len(code) :
        LET s == code[i]
        IN CASE s.op \in {"switchTypeof", "switch"} ->
                   /\ Len(s.cases) > 0
                   /\ \A j \in 1..Len(s.cases) : ValidSource(s.cases[j][2])
             [] s.op \in {"maybe", "for", "forIn", "ifIn"} -> ValidSource(s.inner)
             [] OTHER -> TRUE

(***************************************************************************)
(* JavaScript values as the generated code sees them.                      *)
(***************************************************************************)
Undefined == <<"undef">>
Null == <<"null">>
Num(n) == <<"num", 10 * n>>
Str(x) == <<"str", x>>
Arr(items) == <<"arr", items>>
Obj(keys, vals) == <<"obj", keys, vals>>

TypeOf(v) ==
    CASE v[1] = "undef" -> "undefined"
      [] v[1] = "bool" -> "boolean"
      [] v[1] \in {"num", "nan", "inf"} -> "number"
      [] v[1] = "str" -> "string"
      [] v[1] = "big" -> "bigint"
      [] v[1] = "fn" -> "function"
      [] OTHER -> "object"

IsNull(v) == v[1] = "null"

\* !(v != null)
IsNullish(v) == v[1] \in {"null", "undef"}

\* a === b, for a literal b.
StrictEquals(a, b) == a[1] \notin {"nan", "arr", "obj"} /\ a = b

\* The condition under which a check statement does not throw.
Passes(test, v) ==
    CASE test = "string" -> v[1] = "str"
      [] test = "boolean" -> v[1] = "bool"
      [] test = "number" -> v[1] = "num"
      [] test = "isFinite" -> v[1] = "num"
      [] test = "integer" -> v[1] = "num" /\ v[2] % 10 = 0
      [] test = "isInteger" -> v[1] = "num" /\ v[2] % 10 = 0
      [] test = "bigint" -> v[1] = "big"
      [] test = "array" -> v[1] = "arr"
      [] test = "object" -> v[1] = "obj"
      [] OTHER -> FALSE

HasKey(v, key) == v[1] = "obj" /\ \E j \in 1..Len(v[2]) : v[2][j] = key

\* The members an object or array inherits from its prototype.
Inherited(v, key) ==
    v[1] \in {"obj", "arr"} /\ Len(key) = 1 /\ key[1] \in ObjectPrototype

\* key in v
In(v, key) == HasKey(v, key) \/ Inherited(v, key)

KeyIndex(v, key) == CHOOSE j \in 1..Len(v[2]) : v[2][j] = key

\* v[a] for a resolved accessor a.
GetProp(v, a) ==
    IF a[1] = "idx"
    THEN IF v[1] = "arr" /\ a[2] < Len(v[2]) THEN v[2][a[2] + 1] ELSE Undefined
    ELSE IF HasKey(v, a[2]) THEN v[3][KeyIndex(v, a[2])]
    ELSE IF Inherited(v, a[2]) THEN <<"fn", a[2][1]>>
    ELSE Undefined

\* v[a] = x.
SetProp(v, a, x) ==
    IF a[1] = "idx"
    THEN IF v[1] = "arr" /\ a[2] < Len(v[2])
         THEN Arr([v[2] EXCEPT ![a[2] + 1] = x]) ELSE v
    ELSE IF v[1] # "obj" THEN v
    ELSE IF HasKey(v, a[2])
         THEN Obj(v[2], [v[3] EXCEPT ![KeyIndex(v, a[2])] = x])
         ELSE Obj(Append(v[2], a[2]), Append(v[3], x))

RECURSIVE Read(_, _)
Read(v, path) ==
    IF path = <<>> THEN v ELSE Read(GetProp(v, Head(path)), Tail(path))

RECURSIVE Write(_, _, _)
Write(v, path, x) ==
    IF path = <<>> THEN x
    ELSE SetProp(v, Head(path), Write(GetProp(v, Head(path)), Tail(path), x))

\* The value of a loop variable: the innermost binding.
Lookup(env, name) ==
    env[CHOOSE j \in 1..Len(env) :
             /\ env[j][1] = name
             /\ \A k \in (j + 1)..Len(env) : env[k][1] # name][2]

\* A slot expression with its loop variables replaced by their values.
Slot(e, env) ==
    [j \in 1..Len(e) |->
        IF e[j][1] # "var" THEN e[j]
        ELSE IF e[j][2][1] = "i" THEN <<"idx", Lookup(env, e[j][2])>>
        ELSE <<"rkey", Lookup(env, e[j][2])>>]

\* The string a path expression evaluates to.
RECURSIVE PathText(_, _)
PathText(d, env) ==
    IF d = <<>> THEN <<>>
    ELSE (IF Head(d)[1] = "lit" THEN JsLit(Head(d)[2])
          ELSE IF Head(d)[2][1] = "i" THEN <<ToString(Lookup(env, Head(d)[2]))>>
          ELSE Lookup(env, Head(d)[2]))
         \o PathText(Tail(d), env)

\* The message of the Error a throw statement raises.
Message(t, env) ==
    IF t.k = "s" THEN JsLit(t.lit) ELSE PathText(t.d, env) \o JsLit(t.lit)

\* Whether structuredClone takes v: a function, alone or anywhere inside an
\* array or object, makes it throw a DataCloneError.
RECURSIVE Cloneable(_)
Cloneable(v) ==
    CASE v[1] = "fn" -> FALSE
      [] v[1] = "arr" -> \A j \in 1..Len(v[2]) : Cloneable(v[2][j])
      [] v[1] = "obj" -> \A j \in 1..Len(v[3]) : Cloneable(v[3][j])
      [] OTHER -> TRUE

DataCloneError == <<"DataCloneError">>

\* structuredClone(v) of a value it takes: a copy, equal to v.
structuredClone(v) == v

(***************************************************************************)
(* The user functions of the descriptors above.                            *)
(***************************************************************************)
ApplyFn(fn, v) ==
    CASE fn = "nonEmpty" -> <<"bool", v[1] = "str" /\ v[2] # "">>
      [] fn = "double" -> IF v[1] = "num" THEN <<"num", 2 * v[2]>> ELSE <<"nan">>
      [] fn = "length" -> IF v[1] = "str" THEN Num(Len(v[2])) ELSE Undefined
      [] fn = "Number" ->
            IF v[1] = "num" THEN v
            ELSE IF v = Str("1") THEN Num(1)
            ELSE IF v = Str("2") THEN Num(2)
            ELSE IF v = Str("") \/ v = Null THEN Num(0)
            ELSE <<"nan">>
      [] OTHER -> Undefined

\* if (!x)
Falsy(v) ==
    \/ v[1] \in {"undef", "null", "nan"}
    \/ v = <<"bool", FALSE>>
    \/ v = <<"num", 0>>
    \/ v = <<"str", "">>
    \/ v = <<"big", 0>>

(***************************************************************************)
(* Execution of a validator.  An activation rt holds its status            *)
(* ("run", "throw", or "hang" once a call repeats a call it is nested in), *)
(* the value of `input`, the loop variables, the function-scoped `err`,    *)
(* the message thrown, the log of checks and user-function calls (each     *)
(* with the slot it is made on, counted from the outermost input: base is  *)
(* the slot the activation's own input sits in), and the trampolines that  *)
(* resolved.                                                               *)
(***************************************************************************)
Activation(v, base, log, memo) ==
    [st |-> "run", input |-> v, vars |-> <<>>, err |-> <<>>, msg |-> <<>>,
     done |-> FALSE, base |-> base, log |-> log, memo |-> memo,
     self |-> v, rebound |-> FALSE, cand |-> Undefined, tried |-> <<>>]

\* The object the activation was called with, as it is now: validators
\* assign to its slots in place, until `input` itself is assigned.
Self(rt) == IF rt.rebound THEN rt.self ELSE rt.input

\* e = x
Store(rt, slot, x) ==
    IF slot = <<>>
    THEN [rt EXCEPT !.input = x, !.self = Self(rt), !.rebound = TRUE]
    ELSE [rt EXCEPT !.input = Write(@, slot, x)]

ThrowNow(rt, msg) == [rt EXCEPT !.st = "throw", !.msg = msg]

Logged(rt, what, slot) == [rt EXCEPT !.log = Append(@, <<what, rt.base \o slot>>)]

Outcome(st, val, msg, log, memo, after) ==
    [st |-> st, val |-> val, msg |-> msg, log |-> log, memo |-> memo,
     after |-> after]

InChain(chain, f, v) == \E j \in 1..Len(chain) : chain[j][1] = f /\ chain[j][2] = v

NotCompiled == <<"recursive schema not yet compiled">>

\* The function object v[idx] of validator f calls, or NoFn when the
\* entry is a user function or structuredClone.
Callee(s, f) ==
    IF s.op = "call" THEN s.g
    ELSE IF fns[f].ctx[s.idx][1] \in {"user", "clone"} THEN NoFn
    ELSE fns[f].ctx[s.idx][2]

\* compiled ??= _cache.get(d): the function a call of g runs.
Resolved(g) ==
    IF fns[g].kind = "trampoline"
    THEN IF fns[g].compiled # NoFn THEN fns[g].compiled ELSE cache[fns[g].desc]
    ELSE g

\* for(let v=0;v<e.length;v++){inner} and for(const v in e){inner}, one
\* copy of inner per element (no statement changes the length of e).
Unrolled(v, vals, inner) ==
    LET L == Len(inner) + 2
    IN [k \in 1..(Len(vals) * L) |->
           LET i == (k - 1) \div L
               j == (k - 1) % L
           IN IF j = 0 THEN [op |-> "bind", e |-> <<>>, v |-> v, val |-> vals[i + 1]]
              ELSE IF j = L - 1 THEN [op |-> "unbind", e |-> <<>>]
              ELSE inner[j]]

\* e=clone(snap);try{e=v[i](e);break}catch(_e){err=_e}, for each variant,
\* then throw err??...
Attempts(s, snap) ==
    [j \in 1..(Len(s.fns) + 1) |->
        IF j <= Len(s.fns)
        THEN [op |-> "attempt", e |-> s.e, idx |-> s.fns[j], snap |-> snap, j |-> j]
        ELSE [op |-> "endTry", e |-> s.e, n |-> Len(s.fns)]]

\* The code a statement goes on with, the activation it runs in, and how
\* its result comes back: a check either passes or throws at once, a block
\* runs its inner code in the same activation, a call runs the body of the
\* callee in an activation of its own.
Inline(code, f, chain, rt) ==
    [code |-> code, f |-> f, chain |-> chain, rt |-> rt, merge |-> "none"]

Verdict(pass, s, slot, rt) ==
    IF pass THEN Logged(rt, "check", slot)
    ELSE ThrowNow(Logged(rt, "check", slot), Message(s.throw, rt.vars))

\* One variant of an ordered-try union has run on arg: what came of it.
Tried(rt, j, arg, st, msg, val) ==
    [rt EXCEPT !.tried = Append(@, <<j, arg, st, msg, val>>)]

StaleArg(s, x) == x

\* e=v[cloneIdx](snap), before each try
AttemptArg(s, x) == structuredClone(s.snap)

FirstError(rt) == rt.tried[1][4]

\* throw err??new Error('union failed')
UnionError(rt) == IF rt.err = <<>> THEN <<"union failed">> ELSE rt.err

\* The account of one evaluation of an ordered-try union, as it ends.
UnionDone(rt, s, slot, st, msg) ==
    [rt EXCEPT !.log = Append(@, <<"union", rt.base \o slot,
                                   [cand |-> rt.cand, tried |-> rt.tried,
                                    variants |-> s.n, st |-> st, msg |-> msg,
                                    val |-> Read(rt.input, slot)]>>)]

\* v[idx](arg) or the call of g itself, for a callee g that resolves to t.
EnterFn(s, chain, rt0, slot, arg, g, t) ==
    IF t = NoFn
    THEN IF s.op = "attempt"
         THEN Inline(<<>>, NoFn, chain,
                     Tried([rt0 EXCEPT !.err = NotCompiled], s.j, arg, "throw",
                           NotCompiled, Undefined))
         ELSE Inline(<<>>, NoFn, chain, ThrowNow(rt0, NotCompiled))
    ELSE IF InChain(chain, t, arg) \/ Len(chain) >= MaxDepth
    THEN Inline(<<>>, NoFn, chain, [rt0 EXCEPT !.st = "hang"])
    ELSE [code |-> Body(fns[t].desc).code, f |-> t,
          chain |-> Append(chain, <<t, arg>>),
          rt |-> Activation(arg, rt0.base \o slot, rt0.log,
                            IF t # g THEN rt0.memo \cup {g} ELSE rt0.memo),
          merge |-> s.op, back |-> rt0, slot |-> slot, arg |-> arg,
          j |-> IF s.op = "attempt" THEN s.j ELSE 0]

Enter(s, f, chain, rt0, slot, arg, g) ==
    IF g # NoFn THEN EnterFn(s, chain, rt0, slot, arg, g, Resolved(g))
    ELSE IF fns[f].ctx[s.idx][1] = "user"
    THEN Inline(<<>>, f, chain,
                Store(Logged(rt0, fns[f].ctx[s.idx][2], slot), slot,
                      ApplyFn(fns[f].ctx[s.idx][2], arg)))
    ELSE Inline(<<>>, f, chain,
                Store(rt0, slot, structuredClone(arg)))

BeginOn(s, f, chain, rt, slot, x) ==
    CASE s.op = "check" ->
             Inline(<<>>, f, chain, Verdict(Passes(s.test, x), s, slot, rt))
      [] s.op = "checkTuple" ->
             Inline(<<>>, f, chain,
                    Verdict(x[1] = "arr" /\ Len(x[2]) = s.len, s, slot, rt))
      [] s.op = "literal" ->
             Inline(<<>>, f, chain, Verdict(StrictEquals(x, s.value), s, slot, rt))
      [] s.op = "oneOf" ->
             Inline(<<>>, f, chain,
                    Verdict(\E j \in 1..Len(s.values) : StrictEquals(x, s.values[j]),
                            s, slot, rt))
      [] s.op = "maybe" ->
             IF s.inner # <<>> /\ ~IsNullish(x) THEN Inline(s.inner, f, chain, rt)
             ELSE IF s.inner # <<>> \/ x[1] = "null"
             THEN Inline(<<>>, f, chain, Store(rt, slot, Undefined))
             ELSE Inline(<<>>, f, chain, rt)
      [] s.op = "ifIn" ->
             Inline(IF In(x, s.key) THEN s.inner ELSE <<>>, f, chain, rt)
      [] s.op = "for" ->
             Inline(Unrolled(s.v, [k \in 1..Len(x[2]) |-> k - 1], s.inner),
                    f, chain, rt)
      [] s.op = "forIn" -> Inline(Unrolled(s.v, x[2], s.inner), f, chain, rt)
      [] s.op = "bind" ->
             Inline(<<>>, f, chain, [rt EXCEPT !.vars = Append(@, <<s.v, s.val>>)])
      [] s.op = "unbind" ->
             Inline(<<>>, f, chain, [rt EXCEPT !.vars = SubSeq(@, 1, Len(@) - 1)])
      [] s.op = "switchTypeof" ->
             IF \E j \in 1..Len(s.cases) : s.cases[j][1] = TypeOf(x)
             THEN Inline(s.cases[CHOOSE j \in 1..Len(s.cases) :
                                     s.cases[j][1] = TypeOf(x)][2],
                         f, chain, Logged(rt, "check", slot))
             ELSE Inline(<<>>, f, chain, Verdict(FALSE, s, slot, rt))
      [] s.op = "switch" ->
             IF \E j \in 1..Len(s.cases) : StrictEquals(x, s.cases[j][1])
             THEN Inline(s.cases[CHOOSE j \in 1..Len(s.cases) :
                                     StrictEquals(x, s.cases[j][1])][2],
                         f, chain, Logged(rt, "check", slot))
             ELSE Inline(<<>>, f, chain, Verdict(FALSE, s, slot, rt))
      [] s.op = "refine" ->
             Inline(<<>>, f, chain,
                    IF Falsy(ApplyFn(fns[f].ctx[s.idx][2], x))
                    THEN ThrowNow(Logged(rt, fns[f].ctx[s.idx][2], slot),
                                  Message(s.throw, rt.vars))
                    ELSE Logged(rt, fns[f].ctx[s.idx][2], slot))
      [] s.op = "try" ->
             IF Cloneable(x)
             THEN Inline(Attempts(s, structuredClone(x)), f, chain,
                         [rt EXCEPT !.done = FALSE, !.cand = x, !.tried = <<>>])
             ELSE Inline(<<>>, f, chain,
                         ThrowNow(Logged(rt, "clone", slot), DataCloneError))
      [] s.op = "endTry" ->
             Inline(<<>>, f, chain,
                    IF rt.done
                    THEN [UnionDone(rt, s, slot, "ok", <<>>) EXCEPT !.done = FALSE]
                    ELSE ThrowNow(UnionDone(rt, s, slot, "throw", UnionError(rt)),
                                  UnionError(rt)))
      [] s.op = "attempt" ->
             IF rt.done THEN Inline(<<>>, f, chain, rt)
             ELSE Enter(s, f, chain, Store(rt, slot, AttemptArg(s, x)),
                        slot, AttemptArg(s, x), Callee(s, f))
      [] s.op \in {"assign", "call"} ->
             Enter(s, f, chain, rt, slot, x, Callee(s, f))
      [] OTHER -> Inline(<<>>, f, chain, rt)

BeginAt(s, f, chain, rt, slot) == BeginOn(s, f, chain, rt, slot, Read(rt.input, slot))

Begin(s, f, chain, rt) == BeginAt(s, f, chain, rt, Slot(s.e, rt.vars))

\* The activation of the caller once the callee r has run: e = <result>, or
\* the exception of the callee, which try catches into err.
Finish(n, r) ==
    IF n.merge = "none" THEN r
    ELSE IF r.st = "run"
    THEN [(IF n.slot # <<>> THEN Store(n.back, n.slot, r.input)
           ELSE [n.back EXCEPT !.input = r.input,
                               !.self = IF n.back.rebound THEN @ ELSE Self(r),
                               !.rebound = @ \/ r.rebound])
          EXCEPT !.log = r.log, !.memo = r.memo, !.done = (n.merge = "attempt"),
                 !.tried = IF n.merge = "attempt"
                           THEN Append(@, <<n.j, n.arg, "ok", <<>>, r.input>>)
                           ELSE @]
    ELSE IF r.st = "throw" /\ n.merge = "attempt"
    THEN Tried([n.back EXCEPT !.input = Write(@, n.slot, Self(r)),
                              !.err = r.msg, !.log = r.log, !.memo = r.memo],
               n.j, n.arg, "throw", r.msg, Undefined)
    ELSE [n.back EXCEPT !.input = Write(@, n.slot, Self(r)),
                        !.st = r.st, !.msg = r.msg, !.log = r.log, !.memo = r.memo]

RECURSIVE ExecSeq(_, _, _, _, _)
Continue(n) == Finish(n, ExecSeq(n.code, 1, n.f, n.chain, n.rt))

ExecStmt(s, f, chain, rt) == Continue(Begin(s, f, chain, rt))

ExecSeq(code, i, f, chain, rt) ==
    IF rt.st # "run" \/ i > Len(code) THEN rt
    ELSE ExecSeq(code, i + 1, f, chain, ExecStmt(code[i], f, chain, rt))

Returned(rt) ==
    Outcome(IF rt.st = "run" THEN "ok" ELSE rt.st,
            IF rt.st = "run" THEN rt.input ELSE Undefined,
            rt.msg, rt.log, rt.memo, Self(rt))

\* compile(d)(v), for a descriptor with a cache entry.
Run(d, v) ==
    Returned(ExecSeq(<<[op |-> "call", e |-> <<>>, g |-> cache[d]]>>, 1, NoFn, <<>>,
                     Activation(v, <<>>, <<>>, {})))

(***************************************************************************)
(* The queue of @suckless/queue over memoryAdapter.  A worker is the       *)
(* activation of worker(): suspended in adapter.pull ("pulling"), about to *)
(* resume with the item pull resolved to ("pulled"; NoItem is undefined),  *)
(* suspended in `await handler(item)` ("handling"), or returned            *)
(* ("exited").  Each action is one synchronous run of the event loop.      *)
(***************************************************************************)
NoItem == 0

NoQueue ==
    [created |-> FALSE, concurrency |-> 0, pending |-> 0, running |-> 0,
     closed |-> FALSE, aborted |-> FALSE, buffer |-> <<>>, waiters |-> <<>>,
     drainWaiters |-> 0, worker |-> <<>>, pushes |-> 0, rejected |-> 0,
     disposed |-> FALSE,
     failing |-> 0,       \* push calls whose adapter.push will reject
     accepted |-> <<>>,   \* the items adapter.push took, in order
     started |-> <<>>,    \* the items the handler was called with, in order
     finished |-> 0,      \* the handler invocations the workers are done with
     onError |-> <<>>,    \* the last call of onError: <<item, what it was given>>
     disposing |-> 0,     \* dispose calls that have not returned
     drained |-> 0]       \* drain() promises resolved after waiting

Worker(phase, item) == [phase |-> phase, item |-> item]

AdapterPushFront(q, item) ==
    IF q.waiters # <<>>
    THEN [q EXCEPT !.waiters = Tail(@),
                   !.worker[Head(q.waiters)] = Worker("pulled", item)]
    ELSE [q EXCEPT !.buffer = <<item>> \o @]

\* memoryAdapter.push(item)
AdapterPush(q, item) ==
    IF q.waiters # <<>>
    THEN [q EXCEPT !.waiters = Tail(@),
                   !.worker[Head(q.waiters)] = Worker("pulled", item)]
    ELSE [q EXCEPT !.buffer = Append(@, item)]

\* item = await adapter.pull(controller.signal), called by worker w.
AdapterPull(q, w) ==
    IF q.buffer # <<>>
    THEN [q EXCEPT !.buffer = Tail(@),
                   !.worker[w] = Worker("pulled", Head(q.buffer))]
    ELSE IF q.aborted
    THEN [q EXCEPT !.worker[w] = Worker("pulled", NoItem)]
    ELSE [q EXCEPT !.waiters = Append(@, w),
                   !.worker[w] = Worker("pulling", NoItem)]

LoopTopUnchecked(q, w) == AdapterPull(q, w)

\* while (!controller.signal.aborted) { item = await adapter.pull(...) ...
LoopTop(q, w) ==
    IF q.aborted THEN [q EXCEPT !.worker[w] = Worker("exited", NoItem)]
    ELSE AdapterPull(q, w)

notifyAlways(q) == [q EXCEPT !.drained = @ + q.drainWaiters, !.drainWaiters = 0]

\* if (pending === 0) for (const waiter of drainWaiters.splice(0)) waiter()
notifyDrain(q) ==
    IF q.pending = 0
    THEN [q EXCEPT !.drained = @ + q.drainWaiters, !.drainWaiters = 0]
    ELSE q

FinishedInTry(q, failed) ==
    IF failed THEN notifyDrain([q EXCEPT !.pending = @ - 1, !.finished = @ + 1])
    ELSE notifyDrain([q EXCEPT !.running = @ - 1, !.pending = @ - 1,
                               !.finished = @ + 1])

\* finally { running--; pending--; notifyDrain() }
Finished(q, failed) ==
    notifyDrain([q EXCEPT !.running = @ - 1, !.pending = @ - 1, !.finished = @ + 1])

\* error instanceof Error ? error : new Error(String(error), { cause: error })
Wrapped(error) == IF error = "Error" THEN "Error" ELSE "Error with cause"

\* catch (error) { try { onError?.(..., item) } catch {} }
Caught(q, w, failed, error) ==
    IF failed THEN [q EXCEPT !.onError = <<q.worker[w].item, Wrapped(error)>>]
    ELSE q

LoopedUnlessThrown(q, w, failed, onErrorThrows) ==
    IF failed /\ onErrorThrows
    THEN [q EXCEPT !.worker[w] = Worker("exited", NoItem)]
    ELSE LoopTop(q, w)

\* The worker goes round its loop, whatever onError did.
Looped(q, w, failed, onErrorThrows) == LoopTop(q, w)

\* const workers = Array.from({ length: concurrency }, () => worker())
RECURSIVE StartWorkers(_, _)
StartWorkers(q, w) ==
    IF w > q.concurrency THEN q ELSE StartWorkers(LoopTop(q, w), w + 1)

\* createQueue(handler, memoryAdapter(), { concurrency })
createQueue(concurrency) ==
    /\ ~queue.created
    /\ queue' = StartWorkers(
           [NoQueue EXCEPT !.created = TRUE, !.concurrency = concurrency,
                           !.worker = [w \in 1..concurrency |->
                                          Worker("pulling", NoItem)]], 1)
    /\ UNCHANGED <<svars, utils>>

\* queue.push(item); the items are numbered as they are pushed.
push ==
    /\ queue.created
    /\ queue.pushes < MaxPushes
    /\ queue' = IF queue.closed
                THEN [queue EXCEPT !.pushes = @ + 1, !.rejected = @ + 1]
                ELSE AdapterPush([queue EXCEPT !.pending = @ + 1, !.pushes = @ + 1,
                                               !.accepted = Append(@, queue.pushes + 1)],
                                 queue.pushes + 1)
    /\ UNCHANGED <<svars, utils>>

\* queue.push(item) on an adapter whose push() rejects: the item is not
\* stored and the rejection is handled in a later turn.
pushFails ==
    /\ queue.created
    /\ queue.pushes < MaxPushes
    /\ ~queue.closed
    /\ queue' = [queue EXCEPT !.pending = @ + 1, !.pushes = @ + 1, !.failing = @ + 1]
    /\ UNCHANGED <<svars, utils>>

\* .catch((error) => { pending--; notifyDrain(); throw error })
pushRollback ==
    /\ queue.failing > 0
    /\ queue' = notifyDrain([queue EXCEPT !.failing = @ - 1, !.pending = @ - 1])
    /\ UNCHANGED <<svars, utils>>

\* queue.drain() while something is pending: the promise waits.  (With
\* pending = 0 it returns a resolved promise and changes nothing.)
drain ==
    /\ queue.created
    /\ queue.pending # 0
    /\ queue.drainWaiters + queue.drained < MaxDrains
    /\ queue' = [queue EXCEPT !.drainWaiters = @ + 1]
    /\ UNCHANGED <<svars, utils>>

\* Worker w resumes from pull: it returns on undefined, else counts itself
\* in and calls the handler, which throws at once or leaves a promise (or a
\* plain value) to await.
WorkerResumes(w) ==
    /\ queue.created
    /\ w \in DOMAIN queue.worker
    /\ queue.worker[w].phase = "pulled"
    /\ IF queue.worker[w].item = NoItem
       THEN queue' = [queue EXCEPT !.worker[w] = Worker("exited", NoItem)]
       ELSE \E throwsAtOnce \in BOOLEAN : \E error \in {"Error", "value"} :
            \E onErrorThrows \in BOOLEAN :
                queue' = IF throwsAtOnce
                         THEN Looped(
                                  Finished(
                                      Caught([queue EXCEPT
                                                 !.running = @ + 1,
                                                 !.started = Append(@, queue.worker[w].item)],
                                             w, TRUE, error),
                                      TRUE),
                                  w, TRUE, onErrorThrows)
                         ELSE [queue EXCEPT !.running = @ + 1,
                                            !.started = Append(@, queue.worker[w].item),
                                            !.worker[w].phase = "handling"]
    /\ UNCHANGED <<svars, utils>>

\* The handler's promise is fulfilled (completion) or rejected (failure)
\* and `await handler(item)` returns or throws in worker w: catch, finally
\* and the next turn of the loop.
WorkerContinues(w, failed) ==
    /\ queue.created
    /\ w \in DOMAIN queue.worker
    /\ queue.worker[w].phase = "handling"
    /\ \E error \in {"Error", "value"} : \E onErrorThrows \in BOOLEAN :
           queue' = Looped(Finished(Caught(queue, w, failed, error), failed),
                           w, failed, onErrorThrows)
    /\ UNCHANGED <<svars, utils>>

\* queue[Symbol.asyncDispose](): closed = true; controller.abort() runs the
\* onAbort listener of every pull that is waiting, which resolves it with
\* undefined, and the worker leaves its loop; the call then awaits the
\* workers.
dispose ==
    /\ queue.created
    /\ queue.disposing < MaxDisposes
    /\ queue' = [queue EXCEPT
                     !.closed = TRUE, !.aborted = TRUE, !.waiters = <<>>,
                     !.disposing = @ + 1,
                     !.worker = [w \in DOMAIN queue.worker |->
                                    IF queue.worker[w].phase = "pulling"
                                    THEN Worker("exited", NoItem)
                                    ELSE queue.worker[w]]]
    /\ UNCHANGED <<svars, utils>>

\* await Promise.all(workers); await adapter[Symbol.asyncDispose]()
adapterDispose ==
    /\ queue.disposing > 0
    /\ \A w \in DOMAIN queue.worker : queue.worker[w].phase = "exited"
    /\ queue' = [queue EXCEPT !.buffer = <<>>, !.disposed = TRUE, !.disposing = @ - 1]
    /\ UNCHANGED <<svars, utils>>

\* The turns the event loop takes by itself.
QueueProgress ==
    \/ \E w \in 1..MaxConcurrency : WorkerResumes(w)
    \/ \E w \in 1..MaxConcurrency : \E failed \in BOOLEAN : WorkerContinues(w, failed)
    \/ pushRollback
    \/ adapterDispose

NextQueue ==
    \/ \E c \in 1..MaxConcurrency : createQueue(c)
    \/ push
    \/ pushFails
    \/ drain
    \/ dispose
    \/ QueueProgress

(***************************************************************************)
(* @suckless/cache: createCache(adapter).fetch over an adapter whose get   *)
(* and set complete asynchronously: a get reads the store at some moment   *)
(* after the call and its result reaches the caller in a later turn.  The  *)
(* n-th fetcher invocation yields the value n, or the error n; its promise *)
(* is promise n.                                                           *)
(***************************************************************************)
Keys == {"a", "b"}

NoValue == 0

NoPromise == 0

NoCache ==
    [store |-> [k \in Keys |-> NoValue],       \* the adapter's entries
     inFlight |-> [k \in Keys |-> NoPromise],  \* inFlight: key -> promise
     promises |-> <<>>,                        \* fetcher().then(...) promises
     call |-> <<>>]                            \* the fetch calls made

FetchCall(key, overlaps) ==
    [key |-> key, phase |-> "get", cached |-> NoValue, role |-> "none",
     promise |-> NoPromise, result |-> <<>>, overlaps |-> overlaps]

Settled(c, p) == c.promises[p].state \in {"fulfilled", "rejected"}

\* What awaiting promise p gives: its value, or the error it throws.
Awaited(c, p) ==
    IF c.promises[p].state = "fulfilled" THEN <<"value", p>> ELSE <<"error", p>>

Unreturned(c) == {i \in 1..Len(c.call) : c.call[i].phase # "returned"}

\* cache.fetch(key, fetcher): store.get(key) is called and awaited.
fetch(key) ==
    /\ Len(kvcache.call) < MaxFetches
    /\ kvcache' = [kvcache EXCEPT
                      !.call = Append(@, FetchCall(key,
                                   {i \in Unreturned(kvcache) :
                                        kvcache.call[i].key = key}))]
    /\ UNCHANGED <<svars, queue, retrying, emitter, memoized, limiter, adapter>>

\* The adapter reads the entry for the get of call i.
adapterGet(i) ==
    /\ i \in 1..Len(kvcache.call)
    /\ kvcache.call[i].phase = "get"
    /\ kvcache' = [kvcache EXCEPT
                      !.call[i].phase = "got",
                      !.call[i].cached = kvcache.store[kvcache.call[i].key]]
    /\ UNCHANGED <<svars, queue, retrying, emitter, memoized, limiter, adapter>>

KeptInFlight(inFlight, key) == inFlight

\* finally { inFlight.delete(key) }
Deleted(inFlight, key) == [inFlight EXCEPT ![key] = NoPromise]

\* Call i resumes from `await store.get(key)`: a hit is returned; with an
\* in-flight promise for the key that promise is returned; otherwise the
\* fetcher is invoked and its promise registered.
fetchResumes(i) ==
    /\ i \in 1..Len(kvcache.call)
    /\ kvcache.call[i].phase = "got"
    /\ \E key \in {kvcache.call[i].key} :
           kvcache' =
               IF kvcache.call[i].cached # NoValue
               THEN [kvcache EXCEPT
                        !.call[i].phase = "returned",
                        !.call[i].role = "hit",
                        !.call[i].result = <<"value", kvcache.call[i].cached>>]
               ELSE IF kvcache.inFlight[key] # NoPromise
               THEN [kvcache EXCEPT
                        !.call[i].phase = "awaiting",
                        !.call[i].role = "joined",
                        !.call[i].promise = kvcache.inFlight[key]]
               ELSE [kvcache EXCEPT
                        !.promises = Append(@, [key |-> key, state |-> "pending"]),
                        !.inFlight[key] = Len(kvcache.promises) + 1,
                        !.call[i].phase = "awaiting",
                        !.call[i].role = "owner",
                        !.call[i].promise = Len(kvcache.promises) + 1]
    /\ UNCHANGED <<svars, queue, retrying, emitter, memoized, limiter, adapter>>

\* The fetcher's promise settles: on a value the then-callback calls
\* store.set and awaits it; on an error promise p is rejected.
fetcherSettles(p, ok) ==
    /\ p \in 1..Len(kvcache.promises)
    /\ kvcache.promises[p].state = "pending"
    /\ kvcache' = [kvcache EXCEPT
                      !.promises[p].state = IF ok THEN "setting" ELSE "rejected"]
    /\ UNCHANGED <<svars, queue, retrying, emitter, memoized, limiter, adapter>>

\* The adapter stores the value and completes the set: promise p is
\* fulfilled.
adapterSet(p) ==
    /\ p \in 1..Len(kvcache.promises)
    /\ kvcache.promises[p].state = "setting"
    /\ kvcache' = [kvcache EXCEPT
                      !.store[kvcache.promises[p].key] = p,
                      !.promises[p].state = "fulfilled"]
    /\ UNCHANGED <<svars, queue, retrying, emitter, memoized, limiter, adapter>>

\* A call resumes from its promise: the owner from `await promise`, through
\* the finally; a joined call, which returned `ongoing`, settles like it.
fetchReturns(i) ==
    /\ i \in 1..Len(kvcache.call)
    /\ kvcache.call[i].phase = "awaiting"
    /\ Settled(kvcache, kvcache.call[i].promise)
    /\ kvcache' = [kvcache EXCEPT
                      !.call[i].phase = "returned",
                      !.call[i].result = Awaited(kvcache, kvcache.call[i].promise),
                      !.inFlight = IF kvcache.call[i].role = "owner"
                                   THEN Deleted(@, kvcache.call[i].key)
                                   ELSE @]
    /\ UNCHANGED <<svars, queue, retrying, emitter, memoized, limiter, adapter>>

NextCache ==
    \/ \E key \in Keys : fetch(key)
    \/ \E i \in 1..MaxFetches : adapterGet(i)
    \/ \E i \in 1..MaxFetches : fetchResumes(i)
    \/ \E p \in 1..MaxFetches : \E ok \in BOOLEAN : fetcherSettles(p, ok)
    \/ \E p \in 1..MaxFetches : adapterSet(p)
    \/ \E i \in 1..MaxFetches : fetchReturns(i)

(***************************************************************************)
(* @suckless/retry: one call retry(fn, { maxAttempts, signal, shouldRetry  *)
(* }).  A thrown value is <<kind, what>>, kind "Error" for an Error        *)
(* instance and "value" for anything else; attempt n fails with            *)
(* <<kind, n>> and the signal's reason is <<kind, "abort">>.               *)
(***************************************************************************)
ErrorKinds == {"Error", "value"}

NoRetry ==
    [started |-> FALSE, maxAttempts |-> 0, shouldRetry |-> FALSE,
     n |-> 0,                \* let n
     phase |-> "idle",       \* idle, calling, delaying, delayed, resolved, rejected
     invoked |-> <<>>,       \* the attempt arguments fn was called with
     settled |-> 0,          \* the fn promises that have settled
     errors |-> <<>>,        \* what the failed attempts threw
     timers |-> 0,           \* the backoff timers set
     aborted |-> FALSE,      \* signal.aborted
     reason |-> <<>>,        \* signal.reason
     stop |-> "none",        \* the statement that rejected the call
     result |-> <<>>]        \* what the call resolved or rejected with

\* value instanceof Error ? value : new Error(String(value), { cause: value })
toError(value) ==
    IF value[1] = "Error" THEN value ELSE <<"Error", "wrapped", value>>

Rejected(r, stop, error) ==
    [r EXCEPT !.phase = "rejected", !.stop = stop, !.result = error]

AbortIgnored(r) == FALSE

\* signal.throwIfAborted()
AbortedAtTop(r) == r.aborted

\* for (;;) { signal.throwIfAborted(); try { return await fn(n, signal) ...
Attempt(r) ==
    IF AbortedAtTop(r) THEN Rejected(r, "throwIfAborted", r.reason)
    ELSE [r EXCEPT !.phase = "calling", !.invoked = Append(@, r.n)]

ExhaustedLate(r) == r.n >= r.maxAttempts

\* if (n + 1 >= maxAttempts) throw wrapped
Exhausted(r) == r.n + 1 >= r.maxAttempts

\* delay(ms, signal): rejects at once on an aborted signal, else sets the
\* timer and listens for abort.
delay(r) ==
    IF r.aborted THEN Rejected(r, "delay", toError(r.reason))
    ELSE [r EXCEPT !.phase = "delaying", !.timers = @ + 1]

\* retry(fn, options) with valid options, up to the first await.
retry(maxAttempts, shouldRetry) ==
    /\ ~retrying.started
    /\ retrying' = Attempt([retrying EXCEPT !.started = TRUE,
                                            !.maxAttempts = maxAttempts,
                                            !.shouldRetry = shouldRetry])
    /\ UNCHANGED <<svars, queue, kvcache, emitter, memoized, limiter, adapter>>

\* controller.abort(reason): a delay that is waiting rejects in its onAbort
\* listener.
abort(kind) ==
    /\ ~retrying.aborted
    /\ \E r \in {[retrying EXCEPT !.aborted = TRUE, !.reason = <<kind, "abort">>]} :
           retrying' = IF r.phase = "delaying"
                       THEN Rejected(r, "delay", toError(r.reason))
                       ELSE r
    /\ UNCHANGED <<svars, queue, kvcache, emitter, memoized, limiter, adapter>>

\* fn's promise is fulfilled: retry returns its value.
fnResolves ==
    /\ retrying.phase = "calling"
    /\ retrying' = [retrying EXCEPT !.phase = "resolved", !.settled = @ + 1,
                                    !.result = <<"result", retrying.n>>]
    /\ UNCHANGED <<svars, queue, kvcache, emitter, memoized, limiter, adapter>>

\* fn throws or its promise is rejected: the catch block.  retryable is
\* what shouldRetry(wrapped) answers.
fnRejects(kind, retryable) ==
    /\ retrying.phase = "calling"
    /\ retryable \/ retrying.shouldRetry
    /\ \E r \in {[retrying EXCEPT !.settled = @ + 1,
                                  !.errors = Append(@, <<kind, retrying.n>>)]} :
           retrying' = IF ~retryable
                       THEN Rejected(r, "shouldRetry", toError(<<kind, r.n>>))
                       ELSE IF Exhausted(r)
                       THEN Rejected(r, "exhausted", toError(<<kind, r.n>>))
                       ELSE delay(r)
    /\ UNCHANGED <<svars, queue, kvcache, emitter, memoized, limiter, adapter>>

\* The backoff timer fires: the listener is removed and delay resolves.
timerFires ==
    /\ retrying.phase = "delaying"
    /\ retrying' = [retrying EXCEPT !.phase = "delayed"]
    /\ UNCHANGED <<svars, queue, kvcache, emitter, memoized, limiter, adapter>>

\* retry resumes from `await delay(...)`: n++ and the next turn of the loop.
retryResumes ==
    /\ retrying.phase = "delayed"
    /\ retrying' = Attempt([retrying EXCEPT !.n = @ + 1])
    /\ UNCHANGED <<svars, queue, kvcache, emitter, memoized, limiter, adapter>>

NextRetry ==
    \/ \E m \in 1..MaxAttempts : \E sr \in BOOLEAN : retry(m, sr)
    \/ \E kind \in ErrorKinds : abort(kind)
    \/ fnResolves
    \/ \E kind \in ErrorKinds : \E retryable \in BOOLEAN : fnRejects(kind, retryable)
    \/ timerFires
    \/ retryResumes

(***************************************************************************)
(* @suckless/emitter.  A listener is the number of the on/once call that   *)
(* subscribed it (every call passes a fresh function; once subscribes its  *)
(* wrapper).  The map sends an event to a Set object, a Set is the         *)
(* sequence of its listeners in insertion order, and an unsubscribe        *)
(* function keeps the Set it was created for.  emit runs synchronously;    *)
(* the listeners it calls may emit, subscribe or unsubscribe, so emit is a *)
(* stack of activations, each holding its snapshot and its position.       *)
(***************************************************************************)
Events == {"message", "connect"}

NoSet == 0

NoEmitter ==
    [map |-> [ev \in Events |-> NoSet],  \* map: event -> Set object
     sets |-> <<>>,         \* the Set objects created, in insertion order each
     subs |-> <<>>,         \* the on/once calls: [event, once, set, off, cleared]
     stack |-> <<>>,        \* the emit activations: [event, registered,
                            \* snapshot, next, called]
     emits |-> 0,           \* emit calls made
     fired |-> 0,           \* calls of the once listener
     cancelled |-> FALSE]   \* off() was called before the once listener had fired

Without(set, fn) == SelectSeq(set, LAMBDA f : f # fn)

\* getSet(event)
getSet(e, event) ==
    IF e.map[event] # NoSet THEN e
    ELSE [e EXCEPT !.sets = Append(@, <<>>), !.map[event] = Len(e.sets) + 1]

\* subscribe(event, fn): getSet(event).add(fn); the returned function keeps
\* the set.
subscribe(e, event, once) ==
    LET g == getSet(e, event)
        fn == Len(e.subs) + 1
    IN  [g EXCEPT !.sets[g.map[event]] = Append(@, fn),
                  !.subs = Append(@, [event |-> event, once |-> once,
                                      set |-> g.map[event], off |-> FALSE,
                                      cleared |-> FALSE])]

OffKeepsMap(e, fn) ==
    [e EXCEPT !.sets[e.subs[fn].set] = Without(@, fn), !.subs[fn].off = TRUE]

\* The function subscribe returned for listener fn:
\* set.delete(listener); if (set.size === 0) map.delete(event)
off(e, fn) ==
    LET d == [e EXCEPT !.sets[e.subs[fn].set] = Without(@, fn),
                       !.subs[fn].off = TRUE]
    IN  IF d.sets[e.subs[fn].set] = <<>>
        THEN [d EXCEPT !.map[e.subs[fn].event] = NoSet]
        ELSE d

\* off(), called by the application.
Cancel(e, fn) ==
    [off(e, fn) EXCEPT !.cancelled = @ \/ (e.subs[fn].once /\ e.fired = 0)]

\* Array.from(set)
Snapshot(e, event) == e.sets[e.map[event]]

\* emit(event): without a set it returns; else the snapshot is taken and
\* the loop begins.
Emitting(e, event) ==
    IF e.map[event] = NoSet THEN [e EXCEPT !.emits = @ + 1]
    ELSE [e EXCEPT !.emits = @ + 1,
                   !.stack = Append(@, [event |-> event,
                                        registered |-> e.sets[e.map[event]],
                                        snapshot |-> Snapshot(e, event),
                                        next |-> 1, called |-> <<>>])]

\* (...args) => { off(); listener(...args) }
Fired(e, fn) == [off(e, fn) EXCEPT !.fired = @ + 1]

ReachedIfSubscribed(e, fn) ==
    \E i \in 1..Len(e.sets[e.subs[fn].set]) : e.sets[e.subs[fn].set][i] = fn

\* for (const fn of Array.from(set)) fn(...args): every function of the
\* snapshot is reached, whatever the set holds by then.
Reached(e, fn) == fn \in 1..Len(e.subs)

\* emitter.on(event, listener)
on(event) ==
    /\ emitter.stack = <<>>
    /\ Len(emitter.subs) < MaxSubs
    /\ emitter' = subscribe(emitter, event, FALSE)
    /\ UNCHANGED <<svars, queue, kvcache, retrying, memoized, limiter, adapter>>

\* const off = emitter.once("message", listener)
once ==
    /\ emitter.stack = <<>>
    /\ Len(emitter.subs) < MaxSubs
    /\ \A k \in 1..Len(emitter.subs) : ~emitter.subs[k].once
    /\ emitter' = subscribe(emitter, "message", TRUE)
    /\ UNCHANGED <<svars, queue, kvcache, retrying, memoized, limiter, adapter>>

\* An unsubscribe function called between emits, for the first time or
\* again.
unsubscribe(fn) ==
    /\ emitter.stack = <<>>
    /\ fn \in 1..Len(emitter.subs)
    /\ emitter' = Cancel(emitter, fn)
    /\ UNCHANGED <<svars, queue, kvcache, retrying, memoized, limiter, adapter>>

\* emitter[Symbol.dispose](): map.clear()
disposeEmitter ==
    /\ emitter.stack = <<>>
    /\ emitter' = [emitter EXCEPT
                      !.map = [ev \in Events |-> NoSet],
                      !.subs = [k \in 1..Len(emitter.subs) |->
                                   [emitter.subs[k] EXCEPT !.cleared = TRUE]]]
    /\ UNCHANGED <<svars, queue, kvcache, retrying, memoized, limiter, adapter>>

\* emitter.emit(event) called from outside any listener.
emitEvent(event) ==
    /\ emitter.stack = <<>>
    /\ emitter.emits < MaxEmits
    /\ emitter' = Emitting(emitter, event)
    /\ UNCHANGED <<svars, queue, kvcache, retrying, memoized, limiter, adapter>>

\* The loop of the innermost emit calls the next function of its snapshot.
\* A once wrapper unsubscribes itself and calls its listener; another
\* listener returns, emits an event, subscribes a new listener to its
\* event, or calls the unsubscribe function of listener fn.
callNext(does, event, fn) ==
    /\ emitter.stack # <<>>
    /\ \E a \in {emitter.stack[Len(emitter.stack)]} :
           /\ a.next <= Len(a.snapshot)
           /\ \E e \in {[emitter EXCEPT !.stack[Len(emitter.stack)].next = @ + 1]} :
              \E this \in {a.snapshot[a.next]} :
                  IF ~Reached(emitter, this)
                  THEN does = "skip" /\ emitter' = e
                  ELSE \E c \in {[e EXCEPT !.stack[Len(e.stack)].called =
                                               Append(@, this)]} :
                       IF c.subs[this].once
                       THEN does = "return" /\ emitter' = Fired(c, this)
                       ELSE CASE does = "return" -> emitter' = c
                              [] does = "emit" ->
                                     c.emits < MaxEmits /\ emitter' = Emitting(c, event)
                              [] does = "on" ->
                                     /\ Len(c.subs) < MaxSubs
                                     /\ emitter' = subscribe(c, a.event, FALSE)
                              [] does = "off" ->
                                     /\ fn \in 1..Len(c.subs)
                                     /\ emitter' = Cancel(c, fn)
                              [] OTHER -> FALSE
    /\ UNCHANGED <<svars, queue, kvcache, retrying, memoized, limiter, adapter>>

\* The loop of the innermost emit is through its snapshot: emit returns.
emitReturns ==
    /\ emitter.stack # <<>>
    /\ \E a \in {emitter.stack[Len(emitter.stack)]} : a.next > Len(a.snapshot)
    /\ emitter' = [emitter EXCEPT !.stack = SubSeq(@, 1, Len(@) - 1)]
    /\ UNCHANGED <<svars, queue, kvcache, retrying, memoized, limiter, adapter>>

NextEmitter ==
    \/ \E event \in Events : on(event)
    \/ once
    \/ \E fn \in 1..MaxSubs : unsubscribe(fn)
    \/ disposeEmitter
    \/ \E event \in Events : emitEvent(event)
    \/ \E does \in {"return", "emit", "on", "off", "skip"} :
       \E event \in Events : \E fn \in 1..MaxSubs : callNext(does, event, fn)
    \/ emitReturns

(***************************************************************************)
(* @suckless/memo.  memo(fn, key, {max}) returns a function over a Map     *)
(* from key to [value]; a Map iterates in insertion order, so the cache is *)
(* the sequence of its entries, oldest insertion first.  fn runs inside    *)
(* the call and may call the memoized function itself, so the calls that   *)
(* missed and are inside fn form a stack.  A call is given by its key; the *)
(* value fn returns is the number of the fn invocation that made it.       *)
(***************************************************************************)
MemoKeys == {"x", "y", "z"}

NoMemo ==
    [created |-> FALSE,
     max |-> 0,           \* options.max
     cache |-> <<>>,      \* cache: entries [key, value] in insertion order
     stack |-> <<>>,      \* the calls inside fn: [key, value]
     calls |-> 0,         \* calls of the memoized function
     invoked |-> 0,       \* calls of fn
     recent |-> <<>>,     \* the keys used, each once, least recently used first
     last |-> [key |-> "", value |-> 0, hit |-> FALSE]]  \* the last call returned

\* The position of key k in the cache, 0 if cache.get(k) is undefined.
Entry(m, k) ==
    IF \E i \in 1..Len(m.cache) : m.cache[i].key = k
    THEN CHOOSE i \in 1..Len(m.cache) : m.cache[i].key = k
    ELSE 0

\* cache.delete(k); cache.set(k, entry)
Touched(m, k) ==
    Append(SelectSeq(m.cache, LAMBDA e : e.key # k), m.cache[Entry(m, k)])

\* if (max !== undefined && cache.size >= max) cache.delete(cache.keys().next().value)
Evicted(m) == IF Len(m.cache) >= m.max THEN Tail(m.cache) ELSE m.cache

\* cache.set(k, [v]) after the eviction: a key the Map holds keeps its
\* place and takes the new value, another key is added last.
Stored(m, k, v) ==
    LET c == Evicted(m)
    IN  IF \E i \in 1..Len(c) : c[i].key = k
        THEN [i \in 1..Len(c) |->
                 IF c[i].key = k THEN [key |-> k, value |-> v] ELSE c[i]]
        ELSE Append(c, [key |-> k, value |-> v])

\* The use of key k in the order of recency.
Used(recent, k) == Append(SelectSeq(recent, LAMBDA r : r # k), k)

\* memo(fn, key, { max })
memo(max) ==
    /\ ~memoized.created
    /\ memoized' = [memoized EXCEPT !.created = TRUE, !.max = max]
    /\ UNCHANGED <<packages, limiter, adapter>>

\* The memoized function is called with arguments of key k, by the
\* application or by fn: a hit re-inserts the entry and returns its value,
\* a miss calls fn.
memoizedCall(k) ==
    /\ memoized.created
    /\ memoized.calls < MaxCalls
    /\ memoized' =
           IF Entry(memoized, k) # 0
           THEN [memoized EXCEPT
                    !.calls = @ + 1,
                    !.cache = Touched(memoized, k),
                    !.recent = Used(@, k),
                    !.last = [key |-> k,
                              value |-> memoized.cache[Entry(memoized, k)].value,
                              hit |-> TRUE]]
           ELSE [memoized EXCEPT
                    !.calls = @ + 1,
                    !.invoked = @ + 1,
                    !.stack = Append(@, [key |-> k, value |-> memoized.invoked + 1])]
    /\ UNCHANGED <<packages, limiter, adapter>>

\* fn returns to the innermost call, which evicts, stores and returns.
fnReturns ==
    /\ memoized.stack # <<>>
    /\ \E f \in {memoized.stack[Len(memoized.stack)]} :
           memoized' = [memoized EXCEPT
                           !.stack = SubSeq(@, 1, Len(@) - 1),
                           !.cache = Stored(memoized, f.key, f.value),
                           !.recent = Used(@, f.key),
                           !.last = [key |-> f.key, value |-> f.value, hit |-> FALSE]]
    /\ UNCHANGED <<packages, limiter, adapter>>

\* fn throws: the call throws with the cache as it is.
fnThrows ==
    /\ memoized.stack # <<>>
    /\ memoized' = [memoized EXCEPT !.stack = SubSeq(@, 1, Len(@) - 1)]
    /\ UNCHANGED <<packages, limiter, adapter>>

NextMemo ==
    \/ \E max \in 1..MaxCapacity : memo(max)
    \/ \E k \in MemoKeys : memoizedCall(k)
    \/ fnReturns
    \/ fnThrows
(***************************************************************************)
(* memoryAdapter() of @suckless/queue used on its own: push, pull(signal)  *)
(* and the abort of the signal of a blocked pull.  It is the adapter of    *)
(* the queue above (AdapterPush, AdapterPull); here every pull call is a   *)
(* "worker" of its own, numbered in the order of the calls, every pull has *)
(* its own signal, and items are numbered in the order of the pushes.      *)
(***************************************************************************)
NoAdapter ==
    [buffer |-> <<>>, waiters |-> <<>>,
     worker |-> <<>>,     \* the pull calls: blocked ("pulling") or resolved ("pulled")
     aborted |-> FALSE,   \* signal.aborted as the last pull call found it
     pushes |-> 0,        \* push calls made
     cancelled |-> {}]    \* the pull calls whose signal was aborted while they were blocked

onAbortKeepsWaiter(a, w) ==
    [a EXCEPT !.worker[w] = Worker("pulled", NoItem), !.cancelled = @ \cup {w}]

\* onAbort: idx = waiters.indexOf(waiter); if (idx !== -1) waiters.splice(idx, 1);
\* resolve(undefined)
onAbort(a, w) ==
    [a EXCEPT !.waiters = SelectSeq(@, LAMBDA x : x # w),
              !.worker[w] = Worker("pulled", NoItem),
              !.cancelled = @ \cup {w}]

\* adapter.push(item)
adapterPush ==
    /\ adapter.pushes < MaxPushes
    /\ adapter' = AdapterPush([adapter EXCEPT !.pushes = @ + 1], adapter.pushes + 1)
    /\ UNCHANGED <<packages, memoized, limiter>>

\* adapter.pull(signal), with a signal that is aborted already or is not.
adapterPull(aborted) ==
    /\ Len(adapter.worker) < MaxPulls
    /\ adapter' = AdapterPull([adapter EXCEPT
                                  !.aborted = aborted,
                                  !.worker = Append(@, Worker("called", NoItem))],
                              Len(adapter.worker) + 1)
    /\ UNCHANGED <<packages, memoized, limiter>>

\* The signal of the blocked pull w is aborted: its abort listener runs.
\* (The waiter of a pull that was served has removed the listener.)
adapterAbort(w) ==
    /\ w \in 1..Len(adapter.worker)
    /\ adapter.worker[w].phase = "pulling"
    /\ adapter' = onAbort(adapter, w)
    /\ UNCHANGED <<packages, memoized, limiter>>

NextAdapter ==
    \/ adapterPush
    \/ \E aborted \in BOOLEAN : adapterPull(aborted)
    \/ \E w \in 1..MaxPulls : adapterAbort(w)

(***************************************************************************)
(* @suckless/limiter: createLimiter(max, window, memoryAdapter(interval)). *)
(* The adapter's store maps a key to a Bucket object and get returns the   *)
(* object itself, so buckets are numbered objects.  Time is Date.now() in  *)
(* whole milliseconds.  A token count is kept as a number of 1/window      *)
(* parts of a token: one token is `window` parts, a millisecond refills    *)
(* `max` parts (rate = max / window), a full bucket has max * window.      *)
(* check awaits adapter.get and adapter.set, both resolved promises: the   *)
(* checks in flight resume in the order in which they began to wait, and   *)
(* the interval timer of the sweep runs when none is in flight.            *)
(***************************************************************************)
Windows == {2, 4}

SweepInterval == 2

NoBucket == 0

NoLimiter ==
    [created |-> FALSE, max |-> 0, window |-> 0,
     now |-> 0,                          \* Date.now()
     due |-> SweepInterval,              \* when the interval timer may fire next
     store |-> [k \in Keys |-> NoBucket],  \* memoryAdapter: store
     buckets |-> <<>>,                   \* the Bucket objects: [tokens, last]
     checks |-> <<>>,                    \* check calls in flight, next to resume first
     made |-> 0,                         \* check calls made
     granted |-> [k \in Keys |-> 0],     \* ok: true answers since the clock last moved,
                                         \* to checks made since then
     swept |-> {},                       \* the buckets the sweep deleted, and when
     answer |-> [key |-> "", ok |-> FALSE, remaining |-> 0, retryAfter |-> 0]]

Capacity(l) == l.max * l.window

\* Math.min(max, bucket.tokens + (now - bucket.last) * rate)
Refilled(l, bucket, now) ==
    IF bucket.tokens + (now - bucket.last) * l.max < Capacity(l)
    THEN bucket.tokens + (now - bucket.last) * l.max
    ELSE Capacity(l)

\* check, from the resolution of store.get to the call of store.set: the
\* bucket found is refilled in place, a missing one is made full; a token
\* is taken if there is one; the bucket is stored.
Checked(l, c) ==
    LET found == c.bucket # NoBucket
        b == IF found THEN c.bucket ELSE Len(l.buckets) + 1
        tokens == IF found THEN Refilled(l, l.buckets[b], c.now) ELSE Capacity(l)
        ok == tokens >= l.window
        left == IF ok THEN tokens - l.window ELSE tokens
        bucket == [tokens |-> left, last |-> c.now]
    IN  [l EXCEPT
            !.buckets = IF found THEN [@ EXCEPT ![b] = bucket] ELSE Append(@, bucket),
            !.store[c.key] = b,
            !.checks = Append(Tail(@),
                              [c EXCEPT !.phase = "set", !.ok = ok,
                                        !.remaining = IF ok THEN left \div l.window ELSE 0,
                                        !.retryAfter =
                                            IF ok THEN 0
                                            ELSE (l.window - left + l.max - 1) \div l.max])]

\* check returns its result.
Answered(l, c) ==
    [l EXCEPT
        !.checks = Tail(@),
        !.granted[c.key] = IF c.ok /\ c.now = l.now THEN @ + 1 ELSE @,
        !.answer = [key |-> c.key, ok |-> c.ok, remaining |-> c.remaining,
                    retryAfter |-> c.retryAfter]]

\* The sweep's test: now - bucket.last >= sweepIntervalMs
Stale(l, k) ==
    /\ l.store[k] # NoBucket
    /\ l.now - l.buckets[l.store[k]].last >= SweepInterval

\* createLimiter(max, window, memoryAdapter(SweepInterval))
createLimiter(max, window) ==
    /\ ~limiter.created
    /\ limiter' = [limiter EXCEPT !.created = TRUE, !.max = max, !.window = window]
    /\ UNCHANGED <<packages, memoized, adapter>>

\* limiter.check(key): now = Date.now(); store.get(key) is called and awaited.
check(key) ==
    /\ limiter.created
    /\ limiter.made < MaxChecks
    /\ limiter' = [limiter EXCEPT
                      !.made = @ + 1,
                      !.checks = Append(@, [key |-> key, now |-> limiter.now,
                                            bucket |-> limiter.store[key],
                                            phase |-> "get", ok |-> FALSE,
                                            remaining |-> 0, retryAfter |-> 0])]
    /\ UNCHANGED <<packages, memoized, adapter>>

\* The check that has waited longest resumes: after store.get up to the
\* await of store.set, after store.set to its return.
checkResumes ==
    /\ limiter.checks # <<>>
    /\ \E c \in {Head(limiter.checks)} :
           limiter' = IF c.phase = "get" THEN Checked(limiter, c)
                      ELSE Answered(limiter, c)
    /\ UNCHANGED <<packages, memoized, adapter>>

\* A millisecond passes.
clockTicks ==
    /\ limiter.created
    /\ limiter.now < MaxNow
    /\ limiter' = [limiter EXCEPT !.now = @ + 1, !.granted = [k \in Keys |-> 0]]
    /\ UNCHANGED <<packages, memoized, adapter>>

\* The interval timer of memoryAdapter fires: stale buckets are deleted.
sweep ==
    /\ limiter.created
    /\ limiter.checks = <<>>
    /\ limiter.now >= limiter.due
    /\ limiter' = [limiter EXCEPT
                      !.due = limiter.now + SweepInterval,
                      !.store = [k \in Keys |->
                                    IF Stale(limiter, k) THEN NoBucket ELSE @[k]],
                      !.swept = @ \cup
                          {[key |-> k,
                            tokens |-> limiter.buckets[limiter.store[k]].tokens,
                            last |-> limiter.buckets[limiter.store[k]].last,
                            at |-> limiter.now] : k \in {x \in Keys : Stale(limiter, x)}}]
    /\ UNCHANGED <<packages, memoized, adapter>>

NextLimiter ==
    \/ \E max \in 1..MaxTokens : \E window \in Windows : createLimiter(max, window)
    \/ \E key \in Keys : check(key)
    \/ checkResumes
    \/ clockTicks
    \/ sweep

(***************************************************************************)
(* build() and compile().  A compile call runs as a stack of build()       *)
(* activations: a frame holds its descriptor and the part of its context   *)
(* list filled in so far.  emit() reaches the build() calls of a frame in  *)
(* the order of the <<"build", d>> entries of Body(d).ctx.                 *)
(***************************************************************************)
CompileRoots ==
    {string, s1, s2, treeItems, tree, selfLazy, maybeSelf, lazyInt, pairOfLazy,
     bogus, partlyBogus, throwingLazy, emptyUnion, jsonSchema, 63, 64, 65, 67}

Validator(d, ctx) == [kind |-> "validator", desc |-> d, ctx |-> ctx]

\* const trampoline = (input) => { compiled ??= _cache.get(d); ... }
Trampoline(d) == [kind |-> "trampoline", desc |-> d, compiled |-> NoFn]

Frame(d) == [d |-> d, ctx |-> <<>>]

Top == stack[Len(stack)]

Pending(f) == Body(f.d).ctx

\* The frame has context entries left to fill in.
HasNext(f) == Len(f.ctx) < Len(Pending(f))

NextEntry(f) == Pending(f)[Len(f.ctx) + 1]

\* The exception build(d) ends with once its sub-validators are built: the
\* one emit() threw, or the SyntaxError of new Function.
ErrorOf(body) ==
    IF body.err # NoError THEN body.err
    ELSE IF ~ValidSource(body.code) THEN "SyntaxError"
    ELSE NoError

BuildError(d) == ErrorOf(Body(d))

\* The place in the descriptor tree the activations on the stack have
\* reached: per activation, its descriptor and the context entry it is at.
Occurrence(frames) ==
    [i \in 1..Len(frames) |-> <<frames[i].d, Len(frames[i].ctx) + 1>>]

InvokedAgain(t, entry, occ) ==
    IF entry[3] = "thunk" THEN t \o <<occ, occ>> ELSE t

\* const resolved = d.thunk(), for the lazy occurrence occ.
Invoked(t, entry, occ) ==
    IF entry[3] = "thunk" THEN Append(t, occ) ELSE t

\* finally { _building.delete(d) } of every activation an exception leaves.
UnwoundNoFinally(b, frames) == b

RECURSIVE Unwound(_, _)
Unwound(b, frames) ==
    IF frames = <<>> THEN b
    ELSE Unwound(b \ {frames[Len(frames)].d}, SubSeq(frames, 1, Len(frames) - 1))

\* finally { _building.delete(d) } of an activation that returns.
Released(b, d) == b \ {d}

NeverReentered(b, d) == FALSE

\* if (_building.has(d)) return trampoline
Reentered(b, d) == d \in b

\* _cache.set(desc, fn)
NotCached(c, d, fn) == c

CacheSet(c, d, fn) == [c EXCEPT ![d] = fn]

\* The key compile() looks a descriptor up under.
StructuralKey(d) == CHOOSE k \in Descs : Schemas[k] = Schemas[d]

CacheKey(d) == d

Init ==
    /\ cache = [d \in Descs |-> NoFn]
    /\ building = {}
    /\ fns = <<>>
    /\ stack = <<>>
    /\ returns = [d \in Descs |-> <<>>]
    /\ builds = [d \in Descs |-> 0]
    /\ thrown = NoError
    /\ thunks = <<>>
    /\ calls = 0
    /\ last = [kind |-> "none"]
    /\ queue = NoQueue
    /\ kvcache = NoCache
    /\ retrying = NoRetry
    /\ emitter = NoEmitter
    /\ memoized = NoMemo
    /\ limiter = NoLimiter
    /\ adapter = NoAdapter

\* compile(desc) with a cache entry: return it.
CompileHit(d) ==
    /\ stack = <<>>
    /\ cache[CacheKey(d)] # NoFn
    /\ returns' = [returns EXCEPT ![d] = Append(@, cache[CacheKey(d)])]
    /\ calls' = calls + 1
    /\ thrown' = NoError
    /\ thunks' = <<>>
    /\ UNCHANGED <<cache, building, fns, stack, builds, last, queue, utils>>

\* compile(desc) without one: enter build(desc).
CompileMiss(d) ==
    /\ stack = <<>>
    /\ cache[CacheKey(d)] = NoFn
    /\ calls' = calls + 1
    /\ thrown' = NoError
    /\ thunks' = <<>>
    /\ IF Reentered(building, d)
       THEN /\ fns' = Append(fns, Trampoline(d))
            /\ cache' = CacheSet(cache, CacheKey(d), Len(fns) + 1)
            /\ returns' = [returns EXCEPT ![d] = Append(@, Len(fns) + 1)]
            /\ UNCHANGED <<building, stack>>
       ELSE /\ stack' = <<Frame(d)>>
            /\ building' = building \cup {d}
            /\ UNCHANGED <<cache, fns, returns>>
    /\ UNCHANGED <<builds, last, queue, utils>>

\* emit() copies a user function or structuredClone into the context list.
PushValue ==
    /\ stack # <<>>
    /\ HasNext(Top)
    /\ \E entry \in {NextEntry(Top)} :
           /\ entry[1] # "build"
           /\ stack' = [stack EXCEPT ![Len(stack)].ctx = Append(@, entry)]
    /\ UNCHANGED <<cache, building, fns, returns, builds, thrown, thunks, calls, last, queue, utils>>

\* emit() calls build(variant) or build(resolved) for a descriptor that is
\* not being built: a nested activation starts.
BuildEnter ==
    /\ stack # <<>>
    /\ HasNext(Top)
    /\ Len(stack) < MaxDepth
    /\ \E entry \in {NextEntry(Top)} :
           /\ entry[1] = "build"
           /\ ~Reentered(building, entry[2])
           /\ stack' = Append(stack, Frame(entry[2]))
           /\ building' = building \cup {entry[2]}
           /\ thunks' = Invoked(thunks, entry, Occurrence(stack))
    /\ UNCHANGED <<cache, fns, returns, builds, thrown, calls, last, queue, utils>>

\* ... for a descriptor that is being built: build() returns a trampoline.
InstallTrampoline ==
    /\ stack # <<>>
    /\ HasNext(Top)
    /\ \E entry \in {NextEntry(Top)} :
           /\ entry[1] = "build"
           /\ Reentered(building, entry[2])
           /\ fns' = Append(fns, Trampoline(entry[2]))
           /\ thunks' = Invoked(thunks, entry, Occurrence(stack))
    /\ stack' = [stack EXCEPT ![Len(stack)].ctx = Append(@, <<"fn", Len(fns) + 1>>)]
    /\ UNCHANGED <<cache, building, returns, builds, thrown, calls, last, queue, utils>>

\* The top activation has emitted its body and new Function accepts it:
\* build() returns the validator, to the emit() that called it or to
\* compile(), which caches it.
BuildReturn ==
    /\ stack # <<>>
    /\ ~HasNext(Top)
    /\ BuildError(Top.d) = NoError
    /\ fns' = Append(fns, Validator(Top.d, Top.ctx))
    /\ builds' = [builds EXCEPT ![Top.d] = @ + 1]
    /\ building' = Released(building, Top.d)
    /\ IF Len(stack) = 1
       THEN /\ stack' = <<>>
            /\ cache' = CacheSet(cache, CacheKey(Top.d), Len(fns) + 1)
            /\ returns' = [returns EXCEPT ![Top.d] = Append(@, Len(fns) + 1)]
       ELSE /\ stack' = [SubSeq(stack, 1, Len(stack) - 1)
                            EXCEPT ![Len(stack) - 1].ctx =
                                       Append(@, <<"fn", Len(fns) + 1>>)]
            /\ UNCHANGED <<cache, returns>>
    /\ UNCHANGED <<thrown, thunks, calls, last, queue, utils>>

\* emit() or new Function throws in the top activation: the exception
\* leaves every activation and compile(); nothing is cached.
BuildThrow ==
    /\ stack # <<>>
    /\ ~HasNext(Top)
    /\ \E error \in {BuildError(Top.d)} :
           /\ error # NoError
           /\ thrown' = error
    /\ building' = Unwound(building, stack)
    /\ stack' = <<>>
    /\ UNCHANGED <<cache, fns, returns, builds, thunks, calls, last, queue, utils>>

\* The thunk of the lazy node emit() has reached calls compile(d), for a
\* descriptor d that is being built, before it returns its schema: compile
\* returns the cache entry, or has build(d) return a trampoline and caches
\* that.
ThunkCompiles(d) ==
    /\ stack # <<>>
    /\ HasNext(Top)
    /\ calls < MaxCompiles
    /\ \E entry \in {NextEntry(Top)} : entry[1] = "build" /\ entry[3] = "thunk"
    /\ Reentered(building, d)
    /\ calls' = calls + 1
    /\ IF cache[CacheKey(d)] # NoFn
       THEN /\ returns' = [returns EXCEPT ![d] = Append(@, cache[CacheKey(d)])]
            /\ UNCHANGED <<cache, fns>>
       ELSE /\ fns' = Append(fns, Trampoline(d))
            /\ cache' = CacheSet(cache, CacheKey(d), Len(fns) + 1)
            /\ returns' = [returns EXCEPT ![d] = Append(@, Len(fns) + 1)]
    /\ UNCHANGED <<building, stack, builds, thrown, thunks, last, queue, utils>>

Step == PushValue \/ BuildEnter \/ InstallTrampoline \/ BuildReturn \/ BuildThrow

Compile(d) == CompileHit(d) \/ CompileMiss(d)

Next ==
    \/ \E d \in CompileRoots : calls < MaxCompiles /\ Compile(d)
    \/ Step

Spec == Init /\ [][Next]_vars

\* Compile calls on the recursive tree and on the array of trees, with
\* thunks that may call compile themselves.
ReentrantRoots == {tree, treeItems, jsonSchema, bogus}

NextReentrant ==
    \/ \E d \in ReentrantRoots : calls < MaxCompiles /\ Compile(d)
    \/ Step
    \/ \E d \in ReentrantRoots : ThunkCompiles(d)

SpecReentrant == Init /\ [][NextReentrant]_vars

(***************************************************************************)
(* Calls of compiled validators.                                           *)
(***************************************************************************)
RunRoots ==
    {string, s1, treeItems, tree, selfLazy, maybeSelf, pairOfLazy, partlyBogus,
     jsonSchema, 25, 27, 28, 31, 33, 34, 36, 37, 38, 39, 40, 41, 42, 47, 48,
     fallbackUnion, 52, 53, 54, 55, 56, 59, 61, 62, 68, 69, 70, 71, 72}

K(x) == <<x>>

Leaf(n) == Obj(<<K("value"), K("children")>>, <<Num(n), Arr(<<>>)>>)

Node(n, children) == Obj(<<K("value"), K("children")>>, <<Num(n), Arr(children)>>)

Twice(x) == Arr(<<x, x>>)

Inputs == <<
    Str("hello"),
    Str(""),
    Str("1"),
    Num(42),
    <<"num", 15>>,
    <<"nan">>,
    <<"bool", TRUE>>,
    Null,
    Undefined,
    Arr(<<>>),
    Arr(<<Str("ok"), Num(42)>>),
    Arr(<<Num(1), Arr(<<Str("two"), Null>>)>>),
    Obj(<<K("x")>>, <<Str("a")>>),
    Obj(<<K("x"), K("opt")>>, <<Str("a"), Null>>),
    Obj(<<K("x"), K("opt")>>, <<Num(1), Null>>),
    Leaf(1),
    Node(1, <<Leaf(2)>>),
    Node(1, <<Leaf(2), Node(3, <<Obj(<<K("value")>>, <<Str("bad")>>)>>)>>),
    Arr(<<Leaf(1)>>),
    Arr(<<Node(1, <<Leaf(2)>>)>>),
    Obj(<<K("items")>>,
        <<Arr(<<Obj(<<K("id")>>, <<Num(1)>>), Obj(<<K("id")>>, <<Str("bad")>>)>>)>>),
    Arr(<<Obj(<<K("a")>>, <<Num(1)>>), Obj(<<K("b")>>, <<Str("fail")>>)>>),
    Obj(<<K("data")>>,
        <<Arr(<<Obj(<<K("pair")>>, <<Arr(<<Str("ok"), Str("nope")>>)>>)>>)>>),
    Obj(<< <<"it", QT, "s">> >>, <<Arr(<<Str("ok"), Num(1)>>)>>),
    Obj(<<K("a"), K("b")>>, <<Num(7), Str("x")>>),
    Obj(<<K("a"), K("b")>>, <<Str(""), Num(3)>>),
    Obj(<<K("a"), K("b")>>, <<Str("s"), Num(3)>>),
    Obj(<<K("0"), K("b")>>, <<Num(1), Num(2)>>),
    Obj(<<K("type"), K("val")>>, <<Str("a"), Num(42)>>),
    Arr(<<Str("hi"), Num(42)>>),
    Obj(<<K("x"), K("z"), K("y")>>, <<Num(42), Str("hello"), Null>>),
    Arr(<<Num(42), <<"bool", TRUE>>>>),
    <<"big", 1>>,
    Obj(<<K("v")>>, <<<<"num", 15>>>>),
    Obj(<<K("type"), K("val")>>, <<Str("b"), Num(42)>>),
    Obj(<<K("type")>>, <<Str("c")>>),
    Obj(<<K("type"), K("opt")>>, <<Str("c"), Null>>),
    Obj(<<K("type"), K("val")>>, <<Str("z"), Num(1)>>),
    Obj(<<K("u")>>, <<Obj(<<K("type"), K("val")>>, <<Str("a"), Num(42)>>)>>),
    Obj(<<K("u")>>, <<Obj(<<K("type")>>, <<Str("c")>>)>>),
    Arr(<<Null, Str("ok")>>),
    Arr(<<Num(1), Null, Undefined>>),
    Arr(<<Str("ok")>>),
    Obj(<<K("n"), K("s")>>, <<Str("2"), Str("")>>),
    Obj(<<K("n"), K("s")>>, <<Str("hello"), Str("ok")>>)
>>

\* Values for the comparison of union strategies, alone and in pairs: the
\* third object has a function under a key no variant declares.
Candidates == <<
    Obj(<<K("type"), K("val")>>, <<Str("b"), Num(42)>>),
    Obj(<<K("type"), K("val")>>, <<Str("a"), Num(42)>>),
    Obj(<<K("type"), K("val"), K("cb")>>, <<Str("a"), Str("hi"), <<"fn", "cb">>>>),
    Obj(<<K("type"), K("val"), K("n")>>, <<Str("a"), Str("hi"), Num(1)>>),
    Str("hello"),
    Num(42),
    <<"num", 15>>,
    <<"bool", TRUE>>
>>

PairInputs ==
    {Candidates[i] : i \in 1..Len(Candidates)}
        \cup {Twice(Candidates[i]) : i \in 1..Len(Candidates)}

\* A union emitted with the discriminant switch (47) and one emitted with
\* the typeof dispatch (42), the unions of the same variants behind lazy
\* (75, 79), which are emitted as ordered tries, and the tuples of the two
\* in either order; a recursive union and one whose emission throws.
StrategyPairs == {76, 77, 80, 81}

PairRoots == StrategyPairs \cup {47, 75, 42, 79, 65, jsonSchema}

\* A call compile(d)(v) of a cached validator; a trampoline that found its
\* target keeps it (compiled ??= _cache.get(d)).  A call changes neither
\* the cache nor the markers, so a behaviour is followed up to its first
\* call: `last` holds that call and its outcome.
Observed(d, v, r) ==
    /\ last' = [kind |-> "call", desc |-> d, input |-> v, st |-> r.st,
                val |-> r.val, msg |-> r.msg, log |-> r.log, after |-> r.after]
    /\ fns' = [f \in 1..Len(fns) |->
                  IF f \in r.memo /\ fns[f].compiled = NoFn
                  THEN [fns[f] EXCEPT !.compiled = cache[fns[f].desc]]
                  ELSE fns[f]]

Validate(d, v) ==
    /\ stack = <<>>
    /\ cache[d] # NoFn
    /\ last.kind = "none"
    /\ Observed(d, v, Run(d, v))
    /\ UNCHANGED <<cache, building, stack, returns, builds, thrown, thunks, calls,
                   queue, utils>>

NextRun ==
    \/ \E d \in RunRoots :
           calls < MaxRunCompiles /\ last.kind = "none" /\ Compile(d)
    \/ Step
    \/ \E d \in RunRoots : \E i \in 1..Len(Inputs) : Validate(d, Inputs[i])

SpecRun == Init /\ [][NextRun]_vars

NextPairs ==
    \/ \E d \in PairRoots :
           calls < MaxRunCompiles /\ last.kind = "none" /\ Compile(d)
    \/ Step
    \/ \E d \in PairRoots : \E v \in PairInputs : Validate(d, v)

SpecPairs == Init /\ [][NextPairs]_vars

SpecQueue == Init /\ [][NextQueue]_vars

SpecCache == Init /\ [][NextCache]_vars

SpecRetry == Init /\ [][NextRetry]_vars

SpecEmitter == Init /\ [][NextEmitter]_vars

SpecMemo == Init /\ [][NextMemo]_vars

SpecAdapter == Init /\ [][NextAdapter]_vars

SpecLimiter == Init /\ [][NextLimiter]_vars

\* Pending continuations run and every handler invocation terminates.
FairQueue == SpecQueue /\ WF_vars(QueueProgress)

\* Every step of a compile call is taken: compile() is synchronous.
FairSpec == Spec /\ WF_vars(Step)

(***************************************************************************)
(* Compilation and the cache.                                              *)
(***************************************************************************)

\* C1: every compile(d) that returns yields the same function object as
\* every other compile(d) of the same descriptor object.
CompileIdempotent ==
    \A d \in Descs :
        \A i, j \in 1..Len(returns[d]) : returns[d][i] = returns[d][j]

\* compile was called twice on the recursive tree and returned both times.
CompileIdempotentWitness == Len(returns[tree]) >= 2

\* C2: the cache is keyed by identity: two descriptor objects never share a
\* returned function, and a cache entry exists only for a descriptor
\* compile() was called on and holds a function built from that descriptor.
CacheIndependence ==
    \A d1 \in Descs :
        /\ cache[d1] # NoFn =>
               /\ fns[cache[d1]].desc = d1
               /\ returns[d1] # <<>>
        /\ returns[d1] # <<>> =>
               \A d2 \in Descs \ {d1} :
                   \A i \in 1..Len(returns[d1]) :
                       \A j \in 1..Len(returns[d2]) : returns[d1][i] # returns[d2][j]

\* Two structurally identical descriptors have both been compiled.
CacheIndependenceWitness ==
    /\ Schemas[s1] = Schemas[s2]
    /\ returns[s1] # <<>>
    /\ returns[s2] # <<>>

\* C4: no descriptor is marked as compiling when no compile call is
\* running, also after a compile call that threw, and compile() never hands
\* out a trampoline.
MarkersCleared ==
    /\ stack = <<>> => building = {}
    /\ \A d \in Descs :
           \A i \in 1..Len(returns[d]) : fns[returns[d][i]].kind = "validator"

\* A compile call threw after it had built a sub-validator, and a compile
\* call on that same descriptor threw before.
MarkersClearedWitness ==
    /\ stack = <<>>
    /\ thrown # NoError
    /\ calls >= 2
    /\ fns # <<>>

\* C5: within a compile call no descriptor is built again while it is
\* marked, the nesting of builds stays below the cap of the model, and the
\* compile call finishes.
RECURSIVE FrameDescs(_)
FrameDescs(frames) ==
    IF frames = <<>> THEN {}
    ELSE {Head(frames).d} \cup FrameDescs(Tail(frames))

NoNestedRebuild ==
    /\ \A i, j \in 1..Len(stack) : i # j => stack[i].d # stack[j].d
    /\ FrameDescs(stack) = building
    /\ Len(stack) < MaxDepth

CompileTerminates ==
    /\ []NoNestedRebuild
    /\ (stack # <<>>) ~> (stack = <<>>)

\* A build is nested in the build of another descriptor, which holds a
\* trampoline already.
CompileTerminatesWitness ==
    /\ Len(stack) = 2
    /\ stack[1].d = jsonSchema
    /\ \E i \in 1..Len(fns) : fns[i].kind = "trampoline"

\* C7: no descriptor is built into a validator more than once.
BuiltAtMostOnce == \A d \in Descs : builds[d] <= 1

(***************************************************************************)
(* The descriptor graph.                                                   *)
(***************************************************************************)
Tags(shape) == {shape[i][2] : i \in 1..Len(shape)}

Range(seq) == {seq[i] : i \in 1..Len(seq)}

\* The descriptors d refers to; with sameSlot, those that validate the very
\* slot d validates (wrappers, lazy targets, ordered-try variants).
Edges(d, sameSlot) ==
    LET D == Schemas[d]
    IN CASE D.tag \in {"maybe", "transform", "refine", "preprocess"} -> {D.inner}
         [] D.tag = "lazy" -> {D.thunk} \ {Throws}
         [] D.tag = "union" ->
                IF sameSlot /\ UnionStrategy(D.variants) # "fallback" THEN {}
                ELSE Range(D.variants)
         [] D.tag = "array" -> IF sameSlot THEN {} ELSE {D.item}
         [] D.tag = "record" -> IF sameSlot THEN {} ELSE {D.value}
         [] D.tag = "tuple" -> IF sameSlot THEN {} ELSE Range(D.items)
         [] D.tag = "object" -> IF sameSlot THEN {} ELSE Tags(D.shape)
         [] OTHER -> {}

RECURSIVE ReachFrom(_, _)
ReachFrom(S, sameSlot) ==
    LET next == S \cup UNION {Edges(x, sameSlot) : x \in S}
    IN IF next = S THEN S ELSE ReachFrom(next, sameSlot)

\* d lies on a cycle through lazy that crosses no container slot.
Unguarded(d) == d \in ReachFrom(Edges(d, TRUE), TRUE)

Guarded(d) == \A x \in ReachFrom({d}, FALSE) : ~Unguarded(x)

UsesTags(d, tags) == \E x \in ReachFrom({d}, FALSE) : Schemas[x].tag \in tags

ContainersOnly(d) ==
    \A x \in ReachFrom({d}, FALSE) :
        Schemas[x].tag \in {"object", "array", "tuple", "record", "string",
                            "boolean", "number", "integer", "bigint"}

Called == last.kind = "call"

(***************************************************************************)
(* Trampolines and validator calls.                                        *)
(***************************************************************************)

\* C3: a trampoline invoked after the compile call has returned finds the
\* compiled function of its descriptor: no validator call fails with
\* 'recursive schema not yet compiled'.
TrampolineResolves == Called => last.msg # NotCompiled

Reasons ==
    {<<"expected string">>, <<"expected boolean">>, <<"expected finite number">>,
     <<"expected integer">>, <<"expected bigint">>, <<"expected array">>,
     <<"expected object">>}
        \cup {<<"expected tuple of length ", ToString(n)>> : n \in 0..3}

\* The path of a slot: '.key' for an object key (no dot at the root),
\* '[i]' for an array or tuple position, '[key]' for a record key.
RECURSIVE PathOf(_, _)
PathOf(slot, i) ==
    IF i > Len(slot) THEN <<>>
    ELSE (IF slot[i][1] = "idx" THEN <<"[", ToString(slot[i][2]), "]">>
          ELSE IF slot[i][1] = "rkey" THEN <<"[">> \o slot[i][2] \o <<"]">>
          ELSE IF i = 1 THEN slot[i][2]
          ELSE <<".">> \o slot[i][2])
         \o PathOf(slot, i + 1)

FailedSlot == last.log[Len(last.log)][2]

\* C8: a failure in a nesting of object, array, tuple and record descriptors
\* has the message '<path>: <reason>' with the path of the failing slot, and
\* '<reason>' alone at the root.
PathCorrect ==
    (Called /\ last.st = "throw" /\ ContainersOnly(last.desc)) =>
        \E reason \in Reasons :
            last.msg = (IF FailedSlot = <<>> THEN <<>>
                        ELSE PathOf(FailedSlot, 1) \o <<": ">>) \o reason

(***************************************************************************)
(* Fail-fast order.                                                        *)
(***************************************************************************)
\* The position of a key in the declaration of a shape (0: not declared).
DeclIndex(shape, key) ==
    IF HasField(shape, key)
    THEN CHOOSE i \in 1..Len(shape) : shape[i][1] = key
    ELSE 0

\* The top-level steps (keys or positions) the log visits, in order.
VisitedSteps ==
    LET ls == SelectSeq(last.log, LAMBDA en : en[2] # <<>>)
    IN [i \in 1..Len(ls) |-> ls[i][2][1]]

\* The place of a top-level step in declaration (index) order.
TraversalOrder(d, step) ==
    IF Schemas[d].tag = "object" THEN DeclIndex(Schemas[d].shape, step[2])
    ELSE step[2] + 1

\* The n-th slot in that order need not be visited: a maybe field the
\* input lacks.
Skippable(d, v, n) ==
    /\ Schemas[d].tag = "object"
    /\ Schemas[Schemas[d].shape[n][2]].tag = "maybe"
    /\ ~HasKey(v, Schemas[d].shape[n][1])

\* C9: the checks of an object, tuple or array run slot by slot in
\* declaration (index) order and stop at the first failure: the visited
\* slots follow that order, the failing check is the last thing executed,
\* and every slot before the failing one was visited.
FailFastInOrder ==
    (/\ Called
     /\ \/ Schemas[last.desc].tag = "object" /\ last.input[1] = "obj"
        \/ Schemas[last.desc].tag \in {"tuple", "array"} /\ last.input[1] = "arr")
    => LET d == last.desc
           vs == VisitedSteps
       IN /\ \A i, j \in 1..Len(vs) :
                 i < j => TraversalOrder(d, vs[i]) <= TraversalOrder(d, vs[j])
          /\ (last.st = "throw" /\ FailedSlot # <<>>) =>
                 \A n \in 1..(TraversalOrder(d, FailedSlot[1]) - 1) :
                     \/ \E j \in 1..Len(vs) : TraversalOrder(d, vs[j]) = n
                     \/ Skippable(d, last.input, n)

(***************************************************************************)
(* Round trip.                                                             *)
(***************************************************************************)
Revalidated == Run(last.desc, last.val)

\* C10 as stated: what a validator accepted, it accepts again unchanged.
RoundTrip ==
    (Called /\ last.st = "ok") =>
        (Revalidated.st = "ok" /\ Revalidated.val = last.val)

\* C10: ... for descriptors without transform and preprocess nodes.
RoundTripWithoutMapping ==
    (Called /\ last.st = "ok" /\ ~UsesTags(last.desc, {"transform", "preprocess"}))
        => (Revalidated.st = "ok" /\ Revalidated.val = last.val)

\* A maybe field was normalized from null to undefined and accepted.
RoundTripWithoutMappingWitness ==
    /\ Called
    /\ last.st = "ok"
    /\ last.desc = 40
    /\ last.input = Obj(<<K("x"), K("opt")>>, <<Str("a"), Null>>)
    /\ last.val = Obj(<<K("x"), K("opt")>>, <<Str("a"), Undefined>>)

(***************************************************************************)
(* Ordered-try unions.                                                     *)
(***************************************************************************)
\* The accounts of the ordered-try unions evaluated in the last call.
Unions ==
    LET ls == SelectSeq(last.log, LAMBDA en : en[1] = "union")
    IN {ls[i][3] : i \in 1..Len(ls)}

IsFallback(d) ==
    Schemas[d].tag = "union" /\ UnionStrategy(Schemas[d].variants) = "fallback"

\* C11: every variant of an ordered-try union starts from a value equal to
\* the original candidate, the result is what the accepting variant made
\* of such a value, and a call on a union leaves the caller's object as it
\* was.
FallbackIsolated ==
    Called =>
        /\ \A u \in Unions :
               /\ \A k \in 1..Len(u.tried) : u.tried[k][2] = u.cand
               /\ u.st = "ok" => u.val = u.tried[Len(u.tried)][5]
        /\ (IsFallback(last.desc) /\ last.st \in {"ok", "throw"})
               => last.after = last.input

\* The first variant normalized y and then failed on x; the second one
\* accepted the candidate with y still null, and so is the caller's object.
FallbackIsolatedWitness ==
    /\ Called
    /\ last.desc = fallbackUnion
    /\ last.input = Obj(<<K("x"), K("z"), K("y")>>, <<Num(42), Str("hello"), Null>>)
    /\ last.st = "ok"
    /\ last.val = last.input
    /\ last.after = last.input
    /\ \E u \in Unions : Len(u.tried) = 2 /\ u.tried[1][3] = "throw"

\* C12: an ordered-try union runs its variants in declaration order up to
\* the first that does not fail, and its result is that variant's output;
\* when all fail it throws the error of its last variant on this candidate.
FallbackOrdered ==
    Called =>
        \A u \in Unions :
            /\ Len(u.tried) \in 1..u.variants
            /\ \A k \in 1..Len(u.tried) :
                   /\ u.tried[k][1] = k
                   /\ k < Len(u.tried) => u.tried[k][3] = "throw"
            /\ u.st = "ok" =>
                   /\ u.tried[Len(u.tried)][3] = "ok"
                   /\ u.val = u.tried[Len(u.tried)][5]
            /\ u.st = "throw" =>
                   /\ Len(u.tried) = u.variants
                   /\ u.tried[u.variants][3] = "throw"
                   /\ u.msg = u.tried[u.variants][4]

\* In one validator the first union caught 'expected string' and went on to
\* its second variant, which doubled 42; the second union failed in both
\* variants and threw the error of its last one.
FallbackOrderedWitness ==
    /\ Called
    /\ last.desc = 53
    /\ last.input = Arr(<<Num(42), <<"bool", TRUE>>>>)
    /\ last.st = "throw"
    /\ last.msg = <<"expected integer">>
    /\ \E u \in Unions :
           /\ u.st = "ok"
           /\ u.val = Num(84)
           /\ u.tried[1][4] = <<"expected string">>
    /\ \E u \in Unions : u.st = "throw" /\ u.tried[1][4] = <<"expected string">>

(***************************************************************************)
(* Dispatching unions.                                                     *)
(***************************************************************************)
\* What a primitive descriptor makes of a value on its own.
PrimitiveMessage(tag) ==
    CASE tag = "string" -> <<"expected string">>
      [] tag = "boolean" -> <<"expected boolean">>
      [] tag = "bigint" -> <<"expected bigint">>
      [] tag = "number" -> <<"expected finite number">>
      [] tag = "integer" -> <<"expected integer">>

PrimitiveAccepts(tag, v) ==
    CASE tag = "string" -> v[1] = "str"
      [] tag = "boolean" -> v[1] = "bool"
      [] tag = "bigint" -> v[1] = "big"
      [] tag = "number" -> v[1] = "num"
      [] tag = "integer" -> v[1] = "num" /\ v[2] % 10 = 0

\* The variants of union d whose run-time kind is that of v.
OfKind(d, v) ==
    {i \in 1..Len(Schemas[d].variants) :
        TYPEOF_TAGS[Schemas[Schemas[d].variants[i]].tag] = TypeOf(v)}

\* The outcome of a union of primitives of distinct kinds on v, at path.
KindOutcome(d, v, st, msg, path) ==
    IF OfKind(d, v) = {} THEN st = "throw" /\ msg = path \o <<"union failed">>
    ELSE \A i \in OfKind(d, v) :
             LET tag == Schemas[Schemas[d].variants[i]].tag
             IN IF PrimitiveAccepts(tag, v) THEN st = "ok"
                ELSE st = "throw" /\ msg = path \o PrimitiveMessage(tag)

\* C13: a union of primitives of pairwise distinct run-time kinds gives a
\* value the outcome of the variant of its kind, and 'union failed' when
\* there is none; also in a field, with the field's path.
KindDispatch ==
    /\ (Called /\ Schemas[last.desc].tag = "union"
              /\ UnionStrategy(Schemas[last.desc].variants) = "typeof")
           => /\ KindOutcome(last.desc, last.input, last.st, last.msg, <<>>)
              /\ last.st = "ok" => last.val = last.input
    /\ (Called /\ last.desc = 56 /\ HasKey(last.input, K("v")))
           => KindOutcome(42, GetProp(last.input, <<"key", K("v")>>),
                          last.st, last.msg, <<"v", ": ">>)

\* union(integer, string) rejected 1.5 as the integer variant does.
KindDispatchWitness ==
    /\ Called
    /\ last.desc = 42
    /\ last.input = <<"num", 15>>
    /\ last.st = "throw"
    /\ last.msg = <<"expected integer">>

\* The value variant i pins key to, or Undefined when it pins none.
Pinned(variants, i, key) ==
    LET shape == Schemas[variants[i]].shape
    IN IF \E k \in 1..Len(shape) :
              shape[k][1] = key /\ Schemas[shape[k][2]].tag = "literal"
       THEN Schemas[shape[CHOOSE k \in 1..Len(shape) : shape[k][1] = key][2]].value
       ELSE Undefined

\* The keys all variants pin to pairwise distinct literals.
PinnedKeys(variants) ==
    {key \in {Schemas[variants[1]].shape[k][1] :
                  k \in 1..Len(Schemas[variants[1]].shape)} :
        /\ \A i \in 1..Len(variants) : Pinned(variants, i, key) # Undefined
        /\ \A i, j \in 1..Len(variants) :
               i # j => Pinned(variants, i, key) # Pinned(variants, j, key)}

\* What an object descriptor makes, on its own, of the slot e of v.
VariantOutcome(variant, e, p, v) ==
    Returned(ExecSeq(emit(variant, e, p, EmitState).code, 1, NoFn, <<>>,
                     Activation(v, <<>>, <<>>, {})))

\* The last call treated slot e as the variant its pinned field selects.
Dispatched(variants, e, p) ==
    LET x == Read(last.input, e)
        key == CHOOSE k \in PinnedKeys(variants) : TRUE
        sel == {i \in 1..Len(variants) :
                   x[1] = "obj" /\ HasKey(x, key)
                       /\ GetProp(x, <<"key", key>>) = Pinned(variants, i, key)}
    IN IF x[1] # "obj"
       THEN last.st = "throw" /\ last.msg[Len(last.msg)] = "expected object"
       ELSE IF sel = {}
       THEN last.st = "throw" /\ last.msg[Len(last.msg)] = "union failed"
       ELSE \A i \in sel :
                /\ last.st = VariantOutcome(variants[i], e, p, last.input).st
                /\ last.msg = VariantOutcome(variants[i], e, p, last.input).msg
                /\ last.val = VariantOutcome(variants[i], e, p, last.input).val

ObjectUnion(d) ==
    /\ Schemas[d].tag = "union"
    /\ Schemas[d].variants # <<>>
    /\ \A i \in 1..Len(Schemas[d].variants) :
           Schemas[Schemas[d].variants[i]].tag = "object"

\* C14: a union of objects that pin a shared field to pairwise distinct
\* literals rejects non-objects, gives an object the outcome of the variant
\* its field selects and 'union failed' when it selects none; without such
\* a field the variants are tried in order.
DiscriminatedDispatch ==
    /\ (Called /\ ObjectUnion(last.desc)
               /\ PinnedKeys(Schemas[last.desc].variants) # {})
           => Dispatched(Schemas[last.desc].variants, <<>>, RootPath)
    /\ (Called /\ last.desc = 62 /\ HasKey(last.input, K("u")))
           => Dispatched(Schemas[59].variants, << <<"key", K("u")>> >>,
                         appendKey(RootPath, K("u")))
    /\ (Called /\ ObjectUnion(last.desc)
               /\ PinnedKeys(Schemas[last.desc].variants) = {})
           => (Unions # {} \/ last.msg = DataCloneError)

\* The variant pinned to "a" was selected and its own field error thrown.
DiscriminatedDispatchWitness ==
    /\ Called
    /\ last.desc = 59
    /\ last.input = Obj(<<K("type"), K("val")>>, <<Str("a"), Num(42)>>)
    /\ last.st = "throw"
    /\ last.msg = <<"val", ": ", "expected string">>

\* The tags emit() has a case for.
KnownTags ==
    {"string", "boolean", "number", "integer", "bigint", "literal", "oneOf",
     "maybe", "array", "object", "tuple", "record", "union", "transform",
     "lazy", "refine", "preprocess"}

\* The unrecognized tags in the tree of root.
UnknownTags(root) ==
    {Schemas[x].tag : x \in {y \in ReachFrom({root}, FALSE) :
                                 Schemas[y].tag \notin KnownTags}}

\* A compile call on root ends in this step.
CompileEnds(root) == stack # <<>> /\ stack[1].d = root /\ stack' = <<>>

\* C15: a compile call on a root whose tree holds an unrecognized tag ends
\* by throwing 'Unknown schema tag: "<tag>"', returns no validator and
\* leaves the cache entry of the root empty.
UnknownTagRejected ==
    [][\A root \in CompileRoots :
           (CompileEnds(root) /\ UnknownTags(root) # {}) =>
               /\ \E t \in UnknownTags(root) :
                      thrown' = "Unknown schema tag: \"" \o t \o "\""
               /\ returns'[root] = <<>>
               /\ cache'[root] = NoFn]_vars

\* The keys the object descriptor d declares as maybe.
MaybeKeys(d) ==
    {Schemas[d].shape[k][1] :
        k \in {j \in 1..Len(Schemas[d].shape) :
                   Schemas[Schemas[d].shape[j][2]].tag = "maybe"}}

\* The object descriptor that validates the object v under d: d itself, or
\* the variant of a discriminated union that v's pinned field selects.
ShapeFor(d, v) ==
    IF Schemas[d].tag = "object" THEN {d}
    ELSE IF ObjectUnion(d) /\ PinnedKeys(Schemas[d].variants) # {}
    THEN {Schemas[d].variants[i] : i \in {j \in 1..Len(Schemas[d].variants) :
             \E key \in PinnedKeys(Schemas[d].variants) :
                 /\ HasKey(v, key)
                 /\ GetProp(v, <<"key", key>>) = Pinned(Schemas[d].variants, j, key)}}
    ELSE {}

\* maybe(inner) on the slot value x, for a primitive inner: what comes out.
MaybeOutcome(inner, x, st, msg, out) ==
    IF IsNullish(x) THEN st = "ok" /\ out = Undefined
    ELSE IF PrimitiveAccepts(Schemas[inner].tag, x) THEN st = "ok" /\ out = x
    ELSE st = "throw" /\ msg[Len(msg)] = PrimitiveMessage(Schemas[inner].tag)[1]

\* C16: maybe(inner) turns null and undefined into undefined and gives any
\* other value inner's outcome; a maybe field of an object (or of the
\* selected branch of a discriminated union) may be absent, then nothing
\* fails at it and the key is not added; in a tuple position or an array
\* item there is no absence rule.
MaybeRule ==
    /\ (Called /\ last.desc = 39)
           => MaybeOutcome(Schemas[39].inner, last.input, last.st, last.msg, last.val)
    /\ (Called /\ last.input[1] = "obj")
           => \A o \in ShapeFor(last.desc, last.input) :
                  \A key \in MaybeKeys(o) :
                      ~HasKey(last.input, key) =>
                          /\ last.st = "ok" => ~HasKey(last.val, key)
                          /\ last.st = "throw" => last.msg[1] # esc(key)[1]
    /\ (Called /\ last.desc = 68 /\ last.input[1] = "arr")
           => IF Len(last.input[2]) # 2
              THEN last.st = "throw" /\ last.msg = <<"expected tuple of length ", "2">>
              ELSE last.st = "throw"
                       \/ MaybeOutcome(Schemas[39].inner, last.input[2][1],
                                       last.st, last.msg, last.val[2][1])
    /\ (Called /\ last.desc = 69 /\ last.input[1] = "arr" /\ last.st = "ok")
           => /\ Len(last.val[2]) = Len(last.input[2])
              /\ \A i \in 1..Len(last.input[2]) :
                     MaybeOutcome(Schemas[39].inner, last.input[2][i],
                                  "ok", <<>>, last.val[2][i])

\* The positions of the log at which the user function fn was called.
FnCalls(log, fn) == {i \in 1..Len(log) : log[i][1] = fn}

\* A primitive's verdict on x.
PrimitiveOutcome(tag, x, st, msg, out) ==
    IF PrimitiveAccepts(tag, x) THEN st = "ok" /\ out = x
    ELSE st = "throw" /\ msg = PrimitiveMessage(tag)

\* The last call ran preprocess(inner, fn) on the root, inner a primitive.
PreprocessFirst(D) ==
    /\ last.log # <<>>
    /\ last.log[1] = <<D.fn, <<>> >>
    /\ Cardinality(FnCalls(last.log, D.fn)) = 1
    /\ PrimitiveOutcome(Schemas[D.inner].tag, ApplyFn(D.fn, last.input),
                        last.st, last.msg, last.val)

\* The last call ran transform or refine on the root, inner a primitive.
InnerFirst(D) ==
    IF ~PrimitiveAccepts(Schemas[D.inner].tag, last.input)
    THEN /\ last.st = "throw"
         /\ last.msg = PrimitiveMessage(Schemas[D.inner].tag)
         /\ FnCalls(last.log, D.fn) = {}
    ELSE /\ last.log = << <<"check", <<>> >>, <<D.fn, <<>> >> >>
         /\ IF D.tag = "transform"
            THEN last.st = "ok" /\ last.val = ApplyFn(D.fn, last.input)
            ELSE IF Falsy(ApplyFn(D.fn, last.input))
            THEN /\ last.st = "throw"
                 /\ last.msg = IF D.message = NoMessage
                               THEN <<"refinement failed">> ELSE D.message
            ELSE last.st = "ok" /\ last.val = last.input

\* C17: preprocess calls its function once, before any check of inner, and
\* inner validates the result; transform and refine call theirs only after
\* inner accepted the slot; a false predicate fails with the message given
\* or 'refinement failed'.
UserFunctionOrder ==
    /\ (Called /\ Schemas[last.desc].tag = "preprocess")
           => PreprocessFirst(Schemas[last.desc])
    /\ (Called /\ Schemas[last.desc].tag \in {"transform", "refine"})
           => InnerFirst(Schemas[last.desc])
    /\ Called => \A i \in 1..Len(last.log) :
           /\ last.log[i][1] \in {"nonEmpty", "double", "length"}
                  => i > 1 /\ last.log[i - 1] = <<"check", last.log[i][2]>>
           /\ last.log[i][1] = "Number"
                  => i < Len(last.log) /\ last.log[i + 1] = <<"check", last.log[i][2]>>

\* "1" was converted first and the integer check then accepted the result.
UserFunctionOrderWitness ==
    /\ Called
    /\ last.desc = 41
    /\ last.input = Str("1")
    /\ last.st = "ok"
    /\ last.val = Num(1)
    /\ last.log = << <<"Number", <<>> >>, <<"check", <<>> >> >>

\* The lazy occurrences of the tree of d, marked being the descriptors under
\* construction: build() of a marked descriptor returns a trampoline and
\* emits nothing.
RECURSIVE LazyOccurrences(_, _, _)
LazyOccurrences(d, k, marked) ==
    IF k > Len(Body(d).ctx) THEN 0
    ELSE LET entry == Body(d).ctx[k]
         IN LazyOccurrences(d, k + 1, marked)
            + (IF entry[1] = "build" /\ entry[3] = "thunk" THEN 1 ELSE 0)
            + (IF entry[1] = "build" /\ entry[2] \notin marked
               THEN LazyOccurrences(entry[2], 1, marked \cup {entry[2]})
               ELSE 0)

\* C18: a compile call invokes the thunk of no lazy occurrence twice and,
\* when it returns, has invoked that of every occurrence of the tree; a
\* validator call invokes no thunk and builds nothing.
ThunkOnce ==
    [][/\ \A i, j \in 1..Len(thunks') : i # j => thunks'[i] # thunks'[j]
       /\ \A root \in RunRoots :
              (CompileEnds(root) /\ thrown' = NoError) =>
                  Len(thunks') = LazyOccurrences(root, 1, {root})
       /\ last' # last => thunks' = thunks /\ builds' = builds]_vars

\* The compile call on tuple(l, l) has returned and invoked l's thunk for
\* each of the two positions; a validator was then called.
ThunkOnceWitness ==
    /\ returns[pairOfLazy] # <<>>
    /\ Len(thunks) = 2
    /\ Called

\* C19: when a validator call throws, the caller's input value is as it was
\* before the call.
NoPartialResults ==
    (Called /\ last.st = "throw") => last.after = last.input

\* The workers whose `await handler(item)` has not returned: the handler
\* invocations in progress.
Executing ==
    {w \in DOMAIN queue.worker : queue.worker[w].phase = "handling"}

\* C20: the handler invocations in progress are never more than the
\* configured concurrency; queue.running is their number, and 0 when no
\* pushed item is left to process.
ConcurrencyRespected ==
    queue.created =>
        /\ Cardinality(Executing) <= queue.concurrency
        /\ queue.running = Cardinality(Executing)
        /\ queue.pending = 0 => queue.running = 0

\* Both workers of a queue of concurrency 2 are in a handler while another
\* item waits in the buffer.
ConcurrencyRespectedWitness ==
    /\ queue.created
    /\ queue.concurrency = 2
    /\ queue.running = 2
    /\ queue.buffer # <<>>

\* C21: a drain() promise that is waiting is resolved in the end, every
\* handler invocation terminating.
DrainResolves == (queue.drainWaiters > 0) ~> (queue.drainWaiters = 0)

\* C22: drain() promises are resolved only by a step that leaves pending at
\* 0, with nothing running, and that step resolves every waiter present;
\* pending is never negative and counts the accepted items (those whose
\* adapter.push is still to reject included) whose handler has not finished.
Unfinished == Len(queue.accepted) + queue.failing - queue.finished

DrainAtZero ==
    [][/\ queue'.pending >= 0
       /\ queue'.pending = Unfinished'
       /\ queue'.drained > queue.drained =>
              /\ queue'.pending = 0
              /\ queue'.running = 0
              /\ queue'.drainWaiters = 0
              /\ queue'.drained = queue.drained + queue.drainWaiters
              /\ \A w \in DOMAIN queue'.worker :
                     queue'.worker[w].phase # "handling"
       /\ queue'.drainWaiters < queue.drainWaiters => queue'.drained > queue.drained]_vars

\* Two drain() calls waited for one item and were resolved when it finished.
DrainAtZeroWitness ==
    /\ queue.drained = 2
    /\ queue.pushes = 1
    /\ queue.finished = 1
    /\ queue.pending = 0

\* C23: with the in-memory adapter and concurrency 1 the handler is started
\* on the items in the order they were pushed, one at a time and once each,
\* and every pushed item is handled.
IsPrefix(s, t) == Len(s) <= Len(t) /\ s = SubSeq(t, 1, Len(s))

Started(i) == \E k \in 1..Len(queue.started) : queue.started[k] = i

Accepted(i) == \E k \in 1..Len(queue.accepted) : queue.accepted[k] = i

\* The items the adapter holds or has handed to a worker that has not
\* resumed yet, oldest first (one worker).
Handed ==
    IF queue.worker[1].phase = "pulled" /\ queue.worker[1].item # NoItem
    THEN <<queue.worker[1].item>>
    ELSE <<>>

InPushOrder ==
    queue.concurrency = 1 =>
        /\ IsPrefix(queue.started, queue.accepted)
        /\ queue.running <= 1
        /\ Len(queue.started) = queue.finished + queue.running

EveryItemHandled ==
    /\ [](InPushOrder)
    /\ \A i \in 1..MaxPushes :
           (queue.concurrency = 1 /\ Accepted(i)) ~> Started(i)

\* C23, amended: ... and every pushed item is handled unless the queue is
\* disposed before the worker takes it: until dispose the items not yet
\* started are the ones handed over or buffered, in order, and an open
\* queue whose worker waits for an item has started and finished them all.
HandledUnlessDisposed ==
    queue.concurrency = 1 =>
        /\ InPushOrder
        /\ IsPrefix(queue.started \o Handed \o queue.buffer, queue.accepted)
        /\ ~queue.disposed =>
               queue.started \o Handed \o queue.buffer = queue.accepted
        /\ ~queue.closed /\ queue.worker[1].phase = "pulling" =>
               /\ queue.started = queue.accepted
               /\ queue.finished = Len(queue.accepted)

HandledUnlessDisposedWitness ==
    /\ queue.concurrency = 1
    /\ ~queue.closed
    /\ queue.worker[1].phase = "pulling"
    /\ queue.started = <<1, 2, 3>>
    /\ queue.finished = 3

\* C24: once dispose has been called the queue stays closed; a push is
\* rejected and changes no counter of the queue; no worker takes another
\* item: a worker whose handler finishes leaves its loop, and only an item
\* handed over before the call is still handled; the adapter is disposed,
\* and the dispose call returns, only when every worker loop has exited and
\* no handler is running; a second dispose call goes the same way.
AllExited(q) == \A w \in DOMAIN q.worker : q.worker[w].phase = "exited"

DisposalOrdered ==
    [][/\ queue.closed => queue'.closed
       /\ queue.closed /\ queue'.pushes > queue.pushes =>
              queue' = [queue EXCEPT !.pushes = @ + 1, !.rejected = @ + 1]
       /\ queue.closed =>
              \A w \in DOMAIN queue.worker :
                  /\ queue'.worker[w].phase # "pulling"
                  /\ queue.worker[w].phase = "handling" =>
                         queue'.worker[w].phase \in {"handling", "exited"}
                  /\ queue.worker[w].phase = "exited" =>
                         queue'.worker[w].phase = "exited"
                  /\ queue'.worker[w].phase = "pulled" /\ queue'.worker[w].item # NoItem =>
                         queue'.worker[w] = queue.worker[w]
       /\ queue'.disposing < queue.disposing =>
              /\ AllExited(queue)
              /\ queue.running = 0
              /\ queue'.disposed
       /\ queue'.disposed => AllExited(queue') /\ queue'.running = 0]_vars

\* The adapter has been disposed and a second dispose call is waiting to
\* dispose it again; a handler had run, a push was rejected and an accepted
\* item was dropped.
DisposalOrderedWitness ==
    /\ queue.disposed
    /\ queue.disposing = 1
    /\ queue.rejected = 1
    /\ queue.finished = 1
    /\ Len(queue.accepted) = 2

\* C25: a handler that throws or rejects, or an onError that throws, never
\* ends a worker loop: a worker leaves its loop only once the queue has
\* been disposed.  Every handler invocation that ends, failed or not, is
\* counted finished once (pending and finished move by one); onError is
\* given an Error and the item of the worker that failed; and an open
\* queue whose workers all wait for an item has finished every item taken.
Leaving(w) ==
    /\ queue.worker[w].phase \in {"pulled", "handling"}
    /\ queue.worker[w].item # NoItem
    /\ queue'.worker[w] # queue.worker[w]

ErrorIsolated ==
    [][/\ \A w \in DOMAIN queue.worker :
              queue'.worker[w].phase = "exited" /\ queue.worker[w].phase # "exited"
                  => queue'.aborted
       /\ queue'.finished # queue.finished =>
              /\ queue'.finished = queue.finished + 1
              /\ queue'.pending = queue.pending - 1
              /\ queue'.running - Len(queue'.started)
                     = queue.running - Len(queue.started) - 1
       /\ queue'.onError # queue.onError =>
              /\ queue'.finished = queue.finished + 1
              /\ queue'.onError[2] \in {"Error", "Error with cause"}
              /\ \E w \in DOMAIN queue.worker :
                     Leaving(w) /\ queue'.onError[1] = queue.worker[w].item
       /\ (/\ ~queue'.closed
           /\ queue'.failing = 0
           /\ \A w \in DOMAIN queue'.worker : queue'.worker[w].phase = "pulling")
              => queue'.finished = Len(queue'.accepted)]_vars

\* Item 1 failed with a value that is not an Error; the single worker went
\* on to finish items 2 and 3 and waits for the next one.
ErrorIsolatedWitness ==
    /\ queue.concurrency = 1
    /\ ~queue.closed
    /\ queue.onError = <<1, "Error with cause">>
    /\ queue.finished = 3
    /\ queue.worker[1].phase = "pulling"

\* C26: fetch calls on one key whose executions overlap share one fetcher
\* invocation: no two of them invoke the fetcher, and those that have
\* returned have returned the same result.
Overlapping(i, j) == i \in kvcache.call[j].overlaps

Deduplicated ==
    \A j \in 1..Len(kvcache.call) : \A i \in 1..Len(kvcache.call) :
        Overlapping(i, j) =>
            /\ ~(kvcache.call[i].role = "owner" /\ kvcache.call[j].role = "owner")
            /\ kvcache.call[i].phase = "returned" /\ kvcache.call[j].phase = "returned"
                   => kvcache.call[i].result = kvcache.call[j].result

\* C27: when a fetcher rejects, every call that awaits its promise (the one
\* that invoked it and those that joined) rejects with that invocation's
\* error and nothing is stored by it; inFlight holds a promise for a key
\* only while the call that registered it has not returned, so the entry
\* is gone once that call has rejected and a later call that misses invokes
\* its fetcher again.
Owner(p) ==
    {i \in 1..Len(kvcache.call) :
         kvcache.call[i].role = "owner" /\ kvcache.call[i].promise = p}

FailureCleaned ==
    /\ \A k \in Keys :
           kvcache.inFlight[k] # NoPromise =>
               /\ kvcache.promises[kvcache.inFlight[k]].key = k
               /\ \E i \in Owner(kvcache.inFlight[k]) :
                      kvcache.call[i].phase = "awaiting"
    /\ \A p \in 1..Len(kvcache.promises) :
           /\ Cardinality(Owner(p)) = 1
           /\ kvcache.promises[p].state # "fulfilled" =>
                  \A k \in Keys : kvcache.store[k] # p
           /\ kvcache.promises[p].state = "rejected" =>
                  \A i \in 1..Len(kvcache.call) :
                      kvcache.call[i].promise = p /\ kvcache.call[i].phase = "returned"
                          => kvcache.call[i].result = <<"error", p>>

\* The first fetcher invocation for "a" rejected; the call that made it and
\* a call that joined it have both rejected with its error, nothing is
\* stored, and a third call has invoked the fetcher again.
FailureCleanedWitness ==
    /\ Len(kvcache.call) = 3
    /\ kvcache.call[1].role = "owner" /\ kvcache.call[1].result = <<"error", 1>>
    /\ kvcache.call[2].role = "joined" /\ kvcache.call[2].result = <<"error", 1>>
    /\ kvcache.call[3].role = "owner" /\ kvcache.call[3].promise = 2
    /\ kvcache.call[3].overlaps = {}
    /\ kvcache.store["a"] = NoValue
    /\ kvcache.inFlight["a"] = 2

\* C28: fn is called at most maxAttempts times, one call at a time, with
\* the arguments 0, 1, 2, ...; retry resolves with the result of the first
\* attempt that succeeds, after which nothing is in flight; when all
\* maxAttempts attempts have failed it rejects with what the last one
\* threw, wrapped in an Error if it is not one, and only maxAttempts - 1
\* backoff timers were ever set.
LastError == retrying.errors[Len(retrying.errors)]

AttemptsBounded ==
    /\ Len(retrying.invoked) <= retrying.maxAttempts
    /\ \A i \in 1..Len(retrying.invoked) : retrying.invoked[i] = i - 1
    /\ Len(retrying.invoked) - retrying.settled
           = (IF retrying.phase = "calling" THEN 1 ELSE 0)
    /\ retrying.timers <= Len(retrying.errors)
    /\ retrying.phase = "resolved" =>
           /\ Len(retrying.errors) = Len(retrying.invoked) - 1
           /\ retrying.result = <<"result", Len(retrying.invoked) - 1>>
    /\ retrying.started /\ Len(retrying.errors) = retrying.maxAttempts =>
           /\ retrying.phase = "rejected"
           /\ retrying.result = toError(LastError)
           /\ retrying.result[1] = "Error"
           /\ retrying.timers = retrying.maxAttempts - 1

\* Three attempts failed, the last with a value that is not an Error.
AttemptsBoundedWitness ==
    /\ retrying.maxAttempts = 3
    /\ retrying.invoked = <<0, 1, 2>>
    /\ retrying.stop = "exhausted"
    /\ retrying.result = <<"Error", "wrapped", <<"value", 2>>>>
    /\ retrying.timers = 2

\* C29: retry stops for good on a stop condition.  fn is never called in a
\* turn that finds the signal aborted, and never after the call has
\* settled; when shouldRetry answers false retry rejects with that
\* attempt's error and no timer was set for it; when the signal is found
\* aborted at the start of an attempt retry rejects with its reason; when it
\* aborts during a backoff delay, or was aborted when the delay began, retry
\* rejects with (given) the abort reason.
Over == retrying.phase \in {"resolved", "rejected"}

StopsOn(given) ==
    /\ retrying.aborted => Len(retrying'.invoked) = Len(retrying.invoked)
    /\ Over => /\ retrying'.invoked = retrying.invoked
               /\ retrying'.phase = retrying.phase
               /\ retrying'.result = retrying.result
               /\ retrying'.timers = retrying.timers
    /\ retrying'.phase = "rejected" => retrying'.settled = Len(retrying'.invoked)
    /\ retrying'.stop = "shouldRetry" =>
           /\ retrying'.result = toError(retrying'.errors[Len(retrying'.errors)])
           /\ retrying'.timers = Len(retrying'.errors) - 1
    /\ retrying'.stop = "throwIfAborted" =>
           /\ retrying'.result = retrying'.reason
           /\ Len(retrying'.invoked) = retrying'.n
    /\ retrying'.stop = "delay" /\ ~Over =>
           /\ retrying.aborted \/ retrying.phase = "delaying"
           /\ retrying'.result = given
           /\ retrying'.timers <= Len(retrying'.errors)

StopsForGood == [][StopsOn(retrying'.reason)]_vars

\* C29, amended: ... retry rejects with the abort reason, wrapped in an
\* Error that has the reason as its cause when the reason is not an Error.
StopsForGoodWrapped == [][StopsOn(toError(retrying'.reason))]_vars

\* The signal was aborted with a reason that is not an Error while retry
\* waited between attempts 0 and 1.
StopsForGoodWrappedWitness ==
    /\ retrying.stop = "delay"
    /\ retrying.timers = 1
    /\ retrying.invoked = <<0>>
    /\ retrying.reason = <<"value", "abort">>
    /\ retrying.result = <<"Error", "wrapped", <<"value", "abort">>>>

\* C30: the listener given to once is called at most once, whatever emits
\* are made, re-entrant ones included, and never when the function once
\* returned was called before it had fired.
OnceAtMostOnce ==
    /\ emitter.fired <= 1
    /\ emitter.cancelled => emitter.fired = 0

(***************************************************************************)
(* C31: an unsubscribe function removes only its own listener: whatever    *)
(* unsubscribe functions were called, however often and after whatever     *)
(* later subscriptions or dispose, every listener that was subscribed and  *)
(* was neither unsubscribed itself nor removed by dispose is still in the  *)
(* set emit reads for its event, so it receives every later emit.          *)
(***************************************************************************)
Receives(fn) ==
    /\ emitter.map[emitter.subs[fn].event] # NoSet
    /\ \E i \in 1..Len(Snapshot(emitter, emitter.subs[fn].event)) :
           Snapshot(emitter, emitter.subs[fn].event)[i] = fn

OnlyItsOwnListener ==
    \A fn \in 1..Len(emitter.subs) :
        (~emitter.subs[fn].off /\ ~emitter.subs[fn].cleared) => Receives(fn)

MostRecent(recent, n) ==
    IF Len(recent) <= n THEN recent ELSE SubSeq(recent, Len(recent) - n + 1, Len(recent))

LeastRecentlyUsedEvicted ==
    memoized.created =>
        /\ Len(memoized.cache) <= memoized.max
        /\ [i \in 1..Len(memoized.cache) |-> memoized.cache[i].key]
               = MostRecent(memoized.recent, memoized.max)

(***************************************************************************)
(* C38: the memoryAdapter alone, under any interleaving of push, pull and  *)
(* abort of blocked pulls: every pushed item is in the buffer or was       *)
(* delivered to exactly one pull, never both and never twice; the buffer   *)
(* is in push order and the pulls receive the items in the order in which  *)
(* the pulls were made, so buffered items come out in push order and       *)
(* blocked pulls are served in the order they started waiting; a blocked   *)
(* pull whose signal was aborted has resolved with undefined and is not in *)
(* the waiter list, so no later push is handed to it.                      *)
(***************************************************************************)
Holders(item) ==
    {<<"buffer", i>> : i \in {j \in 1..Len(adapter.buffer) : adapter.buffer[j] = item}}
        \cup {<<"pull", w>> : w \in {v \in 1..Len(adapter.worker) :
                                        adapter.worker[v].item = item}}

DeliveredOnceInOrder ==
    /\ \A item \in 1..adapter.pushes : Cardinality(Holders(item)) = 1
    /\ \A i \in 1..Len(adapter.buffer) :
           /\ adapter.buffer[i] \in 1..adapter.pushes
           /\ i < Len(adapter.buffer) => adapter.buffer[i] < adapter.buffer[i + 1]
           /\ \A w \in 1..Len(adapter.worker) :
                  adapter.worker[w].item < adapter.buffer[i]
    /\ \A v, w \in 1..Len(adapter.worker) :
           (v < w /\ adapter.worker[v].item # NoItem /\ adapter.worker[w].item # NoItem)
               => adapter.worker[v].item < adapter.worker[w].item
    /\ \A w \in 1..Len(adapter.worker) :
           /\ adapter.worker[w].phase \in {"pulling", "pulled"}
           /\ adapter.worker[w].phase = "pulling" <=>
                  \E i \in 1..Len(adapter.waiters) : adapter.waiters[i] = w
           /\ adapter.worker[w].phase = "pulling" => adapter.worker[w].item = NoItem
    /\ \A i, j \in 1..Len(adapter.waiters) :
           i < j => adapter.waiters[i] < adapter.waiters[j]
    /\ \A w \in adapter.cancelled : adapter.worker[w] = Worker("pulled", NoItem)

\* Two pulls blocked, the first was aborted, and the next push went to the
\* second; a later item was buffered and taken by a pull whose signal was
\* aborted already.
DeliveredOnceInOrderWitness ==
    /\ adapter.cancelled = {1}
    /\ Len(adapter.worker) = 3
    /\ adapter.worker[2] = Worker("pulled", 1)
    /\ adapter.worker[3] = Worker("pulled", 2)
    /\ adapter.aborted
    /\ adapter.pushes = 3
    /\ adapter.buffer = <<3>>

(***************************************************************************)
(* C34: for each key, while no time elapses, at most max checks are        *)
(* answered ok: true, however the checks on the key overlap, first checks  *)
(* on a key without a bucket included; a denied check is answered with     *)
(* remaining 0 and a positive retryAfter, an allowed one with what is left *)
(* in the bucket, and a stored token count is between 0 and max.           *)
(***************************************************************************)
AtMostMaxAllowed ==
    /\ \A k \in Keys : limiter.granted[k] <= limiter.max
    /\ \A b \in 1..Len(limiter.buckets) :
           /\ limiter.buckets[b].tokens >= 0
           /\ limiter.buckets[b].tokens <= Capacity(limiter)
    /\ limiter.answer.key # "" =>
           IF limiter.answer.ok
           THEN limiter.answer.remaining \in 0..(limiter.max - 1)
                    /\ limiter.answer.retryAfter = 0
           ELSE limiter.answer.remaining = 0 /\ limiter.answer.retryAfter > 0

(***************************************************************************)
(* C39: the sweep of the in-memory adapter never grants capacity early: a  *)
(* bucket it deleted was one that the refill had already brought back to   *)
(* max tokens by the time of the sweep, whatever the window and the sweep  *)
(* interval.                                                               *)
(***************************************************************************)
SweptOnlyWhenFull ==
    \A r \in limiter.swept :
        Refilled(limiter, r, r.at) = Capacity(limiter)

(***************************************************************************)
(* C35: a failure inside a sub-validator placed at a nested slot (the      *)
(* schema a lazy thunk resolves to, here the children of the recursive     *)
(* tree, or a variant of a fallback union, here the unions in the slots of *)
(* a tuple) is reported with the path of the enclosing slot as prefix: the *)
(* message is '<path>: <reason>' with the path of the failing slot counted *)
(* from the input of the outermost validator.                              *)
(***************************************************************************)
SubValidatorRoots == {tree, 53}

EnclosingPathPrefixed ==
    (Called /\ last.st = "throw" /\ last.desc \in SubValidatorRoots) =>
        \E reason \in Reasons :
            last.msg = (IF FailedSlot = <<>> THEN <<>>
                        ELSE PathOf(FailedSlot, 1) \o <<": ">>) \o reason

(***************************************************************************)
(* C36: the strategy chosen for a union does not change which inputs it    *)
(* accepts nor the value it yields.  A union U that is emitted with the    *)
(* typeof dispatch or the discriminant switch is compared with the union   *)
(* of the same variants behind lazy, which is emitted as ordered tries:    *)
(* the tuples (U, tries) and (tries, U) are run on pairs of one value      *)
(* twice.  Whenever the first slot accepts the second one does, and an     *)
(* accepted pair comes out with two equal values.                          *)
(***************************************************************************)
StrategyIrrelevant ==
    (/\ Called
     /\ last.desc \in StrategyPairs
     /\ \E i \in 1..Len(Candidates) : last.input = Twice(Candidates[i]))
        => /\ last.st \in {"ok", "throw"}
           /\ last.st = "throw" => (FailedSlot = <<>> \/ FailedSlot[1] = <<"idx", 0>>)
           /\ last.st = "ok" => last.val[2][1] = last.val[2][2]

(***************************************************************************)
(* C37: when compile(d) is entered while d is being built, from inside a   *)
(* lazy thunk, then once the outermost compile has returned the cache      *)
(* entry of d is a real compiled validator, not a trampoline, and every    *)
(* function a compile(d) call has handed out is that validator or a        *)
(* trampoline that finds it in the cache, so that no call loops.           *)
(***************************************************************************)
Converges ==
    (stack = <<>> /\ thrown = NoError) =>
        \A d \in ReentrantRoots :
            /\ cache[d] # NoFn => fns[cache[d]].kind = "validator"
            /\ \A i \in 1..Len(returns[d]) :
                   /\ cache[d] # NoFn
                   /\ fns[Resolved(returns[d][i])].kind = "validator"
                   /\ Resolved(returns[d][i]) = cache[d]
====
